---- MODULE Spec2Model ----
(***************************************************************************)
(* Concurrency and resilience control layer of Clauduck:                   *)
(*   - AsyncKeyedLock            (src/src/utils/async-lock.ts)             *)
(*   - executeSessionQuery       (src/src/agent/client.ts)                 *)
(*   - SessionStore              (src/unnamed/part_013)                    *)
(*   - enqueueJob / job queue    (src/src/server.ts)                       *)
(*   - GitHubRateLimiter         (src/unnamed/part_009 and                 *)
(*                                src/src/github/rate-limiter.ts)          *)
(* Each component has its own specification; the variables of the other    *)
(* components stay at their initial values.                                *)
(***************************************************************************)
EXTENDS Integers, Sequences, FiniteSets, TLC

VARIABLES
    \* ---- AsyncKeyedLock and its callers ----
    tails,            \* this.tails: key -> call whose tail promise is stored (NoCall = no entry)
    callKey,          \* key argument of each acquire call
    callKind,         \* "raw" lock user or "query" (executeSessionQuery)
    callPrev,         \* `previous` captured by the call (NoCall = Promise.resolve())
    currentResolved,  \* `current` promise of the call is fulfilled
    tailResolved,     \* `tail` promise of the call is fulfilled
    released,         \* the closure's `released` flag
    pc,               \* position of each call
    relCalls,         \* number of invocations of the release closure
    reqOrder,         \* per key: calls in the order acquire() was called
    grantOrder,       \* per key: calls in the order acquire() returned
    accessLog,        \* per key: session-store accesses <<call, op>> of executeSessionQuery
    seen,             \* sessionInfo read by getSession in executeSessionQuery
    leftBy,           \* sessions[key] at the moment the call released the lock
    exitPath,         \* whether the executeSessionQuery that ended last left its try
                      \* block by a return statement or through the catch block
    \* ---- SessionStore ----
    sessions,         \* this.sessions: key -> record (NoSession = no entry)
    files,            \* the storage directory: file name -> [data, mode], for the files that exist
    sp,               \* position inside persistSession ("idle" outside it)
    spKey,            \* key being persisted
    spRec,            \* record being persisted
    spTemp,           \* tempPath of the persistSession in progress
    spOld,            \* data of the destination file when persistSession began
    faults,           \* file operations that failed and process stops inside persistSession, so far
    did,              \* the store operation that returned last: [op, key, n, threw]
    \* ---- webhook job queue ----
    jobQueue,         \* jobQueue: delivery id -> createdAt of its job (NoJob = no entry)
    processingJobs,   \* processingJobs
    workers,          \* number of processWebhookJob runs in progress, per delivery id
    enqSeq,           \* number of enqueueJob calls made
    lastEnqueue,      \* the last enqueueJob call: its id and whether it started a worker
    completedAt,      \* time the last job of a delivery id finished (NoJob = never)
    outcome,          \* how the last handler of a delivery id ended and what followed
    \* ---- GitHubRateLimiter and the callers of executeWithRetry ----
    impl,             \* which limiter source is running: "current" (part_009) or "legacy" (rate-limiter.ts)
    lim,              \* part_009: [remaining, resetAt (ms), delay]
    leg,              \* rate-limiter.ts: [remaining, resetAt (s), lastRequest, minDelay]
    lpc,              \* position of each executeWithRetry caller
    resume,           \* where a sleeping caller continues
    wakeAt,           \* time at which a sleeping caller's timer fires
    waitNow,          \* `now` captured on entry of waitIfNeeded (rate-limiter.ts line 54)
    attempt,          \* `attempt`
    maxRetries,       \* `maxRetries`
    callsMade,        \* invocations of apiCall by the current executeWithRetry
    lastErr,          \* the error of the last failed invocation: [id, err]
    thrown,           \* the error executeWithRetry threw: [id, err]
    sleeps,          \* durations passed to sleep() by the current executeWithRetry
    failMark,         \* Len(sleeps) when the last invocation failed
    resp,             \* headers of the last response apiCall resolved with
    observed,         \* the headers updateFromHeaders was last called with
    stopMark,         \* per key: how many acquire calls had been made when the last
                      \* stop command cleared its session (NoStop = no stop yet)
    stopCount,        \* number of stop commands handled
    turn,             \* the provider turn (runSession) in progress or last ended
    turnCount,        \* number of provider turns started
    \* ---- clock ----
    now               \* Date.now(), in ms

NoCall == 0
NoSession == [sessionId |-> 0, createdAt |-> 0]

\* ---- bounds ----
NumCalls == 3
MaxReleaseCalls == 2

Calls == 1..NumCalls
\* Conversation keys `${owner}/${repo}#${issueNumber}` as UTF-8 bytes: "o/r#1", "o/r#2".
Keys == {<<111, 47, 114, 35, 49>>, <<111, 47, 114, 35, 50>>}

lockVars == <<tails, callKey, callKind, callPrev, currentResolved, tailResolved,
              released, pc, relCalls, reqOrder, grantOrder, accessLog, seen, leftBy, exitPath>>
storeVars == <<sessions, files>>
persistLocals == <<sp, spKey, spRec, spTemp, spOld>>
persistVars == <<persistLocals, faults, did>>
jobVars == <<jobQueue, processingJobs, workers, enqSeq, lastEnqueue, completedAt, outcome>>
limVars == <<impl, lim, leg, lpc, resume, wakeAt, waitNow, attempt, maxRetries, callsMade,
             lastErr, thrown, sleeps, failMark, resp, observed>>
turnVars == <<turn, turnCount>>
stopVars == <<stopMark, stopCount>>
vars == <<lockVars, storeVars, persistVars, jobVars, limVars, turnVars, stopVars, now>>
\* what the lock and executeSessionQuery never touch, apart from the store
lockFrame == <<stopVars, persistVars, jobVars, limVars, turnVars, now>>
\* what the session store never touches
storeFrame == <<stopVars, lockVars, jobVars, limVars, turnVars>>
\* what the job queue never touches
jobFrame == <<stopVars, lockVars, storeVars, persistVars, limVars, turnVars>>
\* what the rate limiter never touches
limFrame == <<stopVars, lockVars, storeVars, persistVars, jobVars, turnVars>>
\* what a provider turn never touches, apart from the store
turnFrame == <<stopVars, lockVars, persistVars, jobVars, limVars>>

(***************************************************************************)
(* SessionStore: file names and file operations                            *)
(***************************************************************************)

\* Buffer.from(key).toString("base64"): the sextets of the standard encoding,
\* Base64Pad standing for "=".
Base64Pad == 64
RECURSIVE Base64(_)
Base64(bs) ==
    IF Len(bs) = 0 THEN <<>>
    ELSE IF Len(bs) = 1
         THEN <<bs[1] \div 4, (bs[1] % 4) * 16, Base64Pad, Base64Pad>>
    ELSE IF Len(bs) = 2
         THEN <<bs[1] \div 4, (bs[1] % 4) * 16 + bs[2] \div 16, (bs[2] % 16) * 4, Base64Pad>>
    ELSE <<bs[1] \div 4, (bs[1] % 4) * 16 + bs[2] \div 16,
           (bs[2] % 16) * 4 + bs[3] \div 64, bs[3] % 64>>
         \o Base64(SubSeq(bs, 4, Len(bs)))

\* File names of the storage directory: `${base64}.json` (stamp = NoStamp) and
\* `${base64}.json.${Date.now()}.tmp` (stamp = the time).
NoStamp == -1
getSessionFilePath(k) == [b64 |-> Base64(k), stamp |-> NoStamp]
TempPath(k, t) == [b64 |-> Base64(k), stamp |-> t]

\* mode 0o600
ModeOwnerRW == 384

EmptyDir == [f \in {} |-> 0]
existsSync(fs, f) == f \in DOMAIN fs
\* JSON.stringify(session, null, 2) as file data
JsonOfEmptyObject(rec) == [kind |-> "json", rec |-> NoSession]
JsonOf(rec) == [kind |-> "json", rec |-> rec]
\* the mode of a file created without a mode option (0o666 under umask 0o022)
ModeDefault == 420
writeFileSyncDefaultMode(fs, f, data, mode) ==
    [x \in DOMAIN fs \cup {f} |->
        IF x = f
        THEN [data |-> data, mode |-> IF f \in DOMAIN fs THEN fs[f].mode ELSE ModeDefault]
        ELSE fs[x]]
\* writeFileSync(f, data, {mode}): the mode is applied when the file is created.
writeFileSync(fs, f, data, mode) ==
    [x \in DOMAIN fs \cup {f} |->
        IF x = f
        THEN [data |-> data, mode |-> IF f \in DOMAIN fs THEN fs[f].mode ELSE mode]
        ELSE fs[x]]
unlinkSync(fs, f) == [x \in DOMAIN fs \ {f} |-> fs[x]]
renameSync(fs, a, b) == [x \in (DOMAIN fs \ {a}) \cup {b} |-> IF x = b THEN fs[a] ELSE fs[x]]

\* cleanupTempFilesForKey: every `${baseName}.*.tmp` of the key is unlinked.
TempFilesForAnyKey(fs, k) == {f \in DOMAIN fs : f.stamp # NoStamp}
TempFilesForKey(fs, k) == {f \in DOMAIN fs : f.b64 = Base64(k) /\ f.stamp # NoStamp}
cleanupAllFilesForKey(fs, k) == [x \in {f \in DOMAIN fs : f.b64 # Base64(k)} |-> fs[x]]
cleanupTempFilesForKey(fs, k) == [x \in DOMAIN fs \ TempFilesForKey(fs, k) |-> fs[x]]

\* persistSession when no file operation fails: temp file, unlink of the old
\* destination, rename, temp cleanup.
UnlinkOldDest(fs, k) ==
    IF existsSync(fs, getSessionFilePath(k)) THEN unlinkSync(fs, getSessionFilePath(k)) ELSE fs
persistSession(fs, k, rec, t) ==
    cleanupTempFilesForKey(
        renameSync(
            UnlinkOldDest(writeFileSync(fs, TempPath(k, t), JsonOf(rec), ModeOwnerRW), k),
            TempPath(k, t), getSessionFilePath(k)),
        k)

(***************************************************************************)
(* AsyncKeyedLock                                                          *)
(***************************************************************************)

\* The map slot a key uses: one entry per key.
TailSlotShared(k) == CHOOSE s \in Keys : TRUE
TailSlot(k) == k

\* `await previous` may continue: previous is Promise.resolve() or a fulfilled tail.
PrevSettledNoWait(i) == TRUE
PrevSettled(i) == IF callPrev[i] = NoCall THEN TRUE ELSE tailResolved[callPrev[i]]

\* `tail = previous.then(() => current)` can be fulfilled: previous and current both are.
TailReadyIgnoresCurrent(i) == PrevSettled(i)
TailReady(i) == PrevSettled(i) /\ currentResolved[i]

\* this.tails.set(key, tail): the entry the call stores for the key.
NewTailKeepOld(k, i) == IF tails[TailSlot(k)] # NoCall THEN tails[TailSlot(k)] ELSE i
NewTail(k, i) == i

InitLock ==
    /\ tails = [k \in Keys |-> NoCall]
    /\ callKey = [i \in Calls |-> CHOOSE k \in Keys : TRUE]
    /\ callKind = [i \in Calls |-> "raw"]
    /\ callPrev = [i \in Calls |-> NoCall]
    /\ currentResolved = [i \in Calls |-> FALSE]
    /\ tailResolved = [i \in Calls |-> FALSE]
    /\ released = [i \in Calls |-> FALSE]
    /\ pc = [i \in Calls |-> "idle"]
    /\ relCalls = [i \in Calls |-> 0]
    /\ reqOrder = [k \in Keys |-> <<>>]
    /\ grantOrder = [k \in Keys |-> <<>>]
    /\ accessLog = [k \in Keys |-> <<>>]
    /\ seen = [i \in Calls |-> NoSession]
    /\ leftBy = [i \in Calls |-> NoSession]
    /\ exitPath = "none"

\* acquire(key) up to `await previous` (async-lock.ts lines 8-19).
\* Calls are numbered in the order they are made.
AcquireCall(i, k, kind) ==
    /\ pc[i] = "idle"
    /\ \A j \in 1..(i - 1) : pc[j] # "idle"
    /\ callKey' = [callKey EXCEPT ![i] = k]
    /\ callKind' = [callKind EXCEPT ![i] = kind]
    /\ callPrev' = [callPrev EXCEPT ![i] = tails[TailSlot(k)]]
    /\ tails' = [tails EXCEPT ![TailSlot(k)] = NewTail(k, i)]
    /\ pc' = [pc EXCEPT ![i] = "waiting"]
    /\ reqOrder' = [reqOrder EXCEPT ![k] = Append(@, i)]
    /\ UNCHANGED <<currentResolved, tailResolved, released, relCalls, grantOrder,
                   accessLog, seen, leftBy, storeVars, exitPath, lockFrame>>

TailSettleHeadOnly(i) ==
    /\ pc[i] # "idle"
    /\ ~tailResolved[i]
    /\ TailReady(i) /\ callPrev[i] = NoCall
    /\ tailResolved' = [tailResolved EXCEPT ![i] = TRUE]
    /\ UNCHANGED <<tails, callKey, callKind, callPrev, currentResolved, released, pc,
                   relCalls, reqOrder, grantOrder, accessLog, seen, leftBy, storeVars, exitPath, lockFrame>>
\* The promise `tail = previous.then(() => current)` is fulfilled once previous
\* and current both are (async-lock.ts line 15).
TailSettle(i) ==
    /\ pc[i] # "idle"
    /\ ~tailResolved[i]
    /\ TailReady(i)
    /\ tailResolved' = [tailResolved EXCEPT ![i] = TRUE]
    /\ UNCHANGED <<tails, callKey, callKind, callPrev, currentResolved, released, pc,
                   relCalls, reqOrder, grantOrder, accessLog, seen, leftBy, storeVars, exitPath, lockFrame>>

\* acquire(key) continues after `await previous` and returns the release closure
\* (async-lock.ts lines 19-22).
AcquireReturn(i) ==
    /\ pc[i] = "waiting"
    /\ PrevSettled(i)
    /\ pc' = [pc EXCEPT ![i] = "held"]
    /\ grantOrder' = [grantOrder EXCEPT ![callKey[i]] = Append(@, i)]
    /\ UNCHANGED <<tails, callKey, callKind, callPrev, currentResolved, tailResolved,
                   released, relCalls, reqOrder, accessLog, seen, leftBy, storeVars, exitPath, lockFrame>>

\* this.tails.get(key) === tail (async-lock.ts line 28): the entry of the key is
\* still the tail this call stored.
IsOwnTailNever(i) == FALSE
IsOwnTail(i) == tails[TailSlot(callKey[i])] = i

\* The release closure (async-lock.ts lines 22-31): what it does to the lock.
ReleaseFnNaive(i) ==
    /\ released' = [released EXCEPT ![i] = TRUE]
    /\ currentResolved' = [currentResolved EXCEPT ![i] = TRUE]
    /\ tails' = [tails EXCEPT ![TailSlot(callKey[i])] = NoCall]
ReleaseFn(i) ==
    IF released[i]
    THEN UNCHANGED <<released, currentResolved, tails>>
    ELSE /\ released' = [released EXCEPT ![i] = TRUE]
         /\ currentResolved' = [currentResolved EXCEPT ![i] = TRUE]
         /\ tails' = IF IsOwnTail(i)
                     THEN [tails EXCEPT ![TailSlot(callKey[i])] = NoCall]
                     ELSE tails

\* A direct user of the lock invokes the closure it was given (any number of times).
Release(i) ==
    /\ callKind[i] = "raw"
    /\ pc[i] = "held"
    /\ relCalls[i] < MaxReleaseCalls
    /\ ReleaseFn(i)
    /\ relCalls' = [relCalls EXCEPT ![i] = @ + 1]
    /\ leftBy' = IF released[i] THEN leftBy ELSE [leftBy EXCEPT ![i] = sessions[callKey[i]]]
    /\ UNCHANGED <<callKey, callKind, callPrev, tailResolved, pc, reqOrder, grantOrder,
                   accessLog, seen, storeVars, exitPath, lockFrame>>

(***************************************************************************)
(* executeSessionQuery (client.ts lines 935-1040) as a user of the lock    *)
(***************************************************************************)

LogAccess(k, i, op) == [accessLog EXCEPT ![k] = Append(@, <<i, op>>)]

\* sessionStore.getSession(sessionKey), line 952.
QueryGetSession(i) ==
    /\ callKind[i] = "query"
    /\ pc[i] = "held"
    /\ seen' = [seen EXCEPT ![i] = sessions[callKey[i]]]
    /\ accessLog' = LogAccess(callKey[i], i, "get")
    /\ pc' = [pc EXCEPT ![i] = "streaming"]
    /\ UNCHANGED <<tails, callKey, callKind, callPrev, currentResolved, tailResolved,
                   released, relCalls, reqOrder, grantOrder, leftBy, storeVars, exitPath, lockFrame>>

\* The stream delivers the system/init message: saveSession, lines 972-981.
\* The runtime reports the resumed session id or a new one.
QuerySaveSession(i) ==
    /\ callKind[i] = "query"
    /\ pc[i] = "streaming"
    /\ \E sid \in {i} \cup ({seen[i].sessionId} \ {0}) :
          LET rec == [sessionId |-> sid, createdAt |-> now] IN
          /\ sessions' = [sessions EXCEPT ![callKey[i]] = rec]
          /\ files' = persistSession(files, callKey[i], rec, now)
    /\ accessLog' = LogAccess(callKey[i], i, "save")
    /\ pc' = [pc EXCEPT ![i] = "saved"]
    /\ UNCHANGED <<tails, callKey, callKind, callPrev, currentResolved, tailResolved,
                   released, relCalls, reqOrder, grantOrder, seen, leftBy, exitPath, lockFrame>>

\* The ways out of the try block of executeSessionQuery: a result message of
\* subtype success (line 1010), a result message of another subtype (line 1016),
\* the end of the stream (line 1025), an exception (catch, lines 1029-1034).
ExitPaths == {"success", "errorResult", "streamEnd", "exception"}
\* finally { releaseLock() } (lines 1035-1039) runs after each of them
FinallyReleasesUnlessThrown(how) == how # "exception"
FinallyReleases(how) == TRUE

\* The turn ends: the finally block calls releaseLock(), lines 1035-1039.
QueryFinish(i, how) ==
    /\ callKind[i] = "query"
    /\ pc[i] \in {"streaming", "saved"}
    /\ exitPath' = IF how = "exception" THEN "catch" ELSE "return"
    /\ IF FinallyReleases(how)
       THEN ReleaseFn(i) /\ relCalls' = [relCalls EXCEPT ![i] = @ + 1]
       ELSE UNCHANGED <<released, currentResolved, tails, relCalls>>
    /\ leftBy' = [leftBy EXCEPT ![i] = sessions[callKey[i]]]
    /\ pc' = [pc EXCEPT ![i] = "done"]
    /\ UNCHANGED <<callKey, callKind, callPrev, tailResolved, reqOrder, grantOrder,
                   accessLog, seen, storeVars, lockFrame>>

NextLock ==
    \/ \E i \in Calls, k \in Keys, kind \in {"raw", "query"} : AcquireCall(i, k, kind)
    \/ \E i \in Calls : TailSettle(i)
    \/ \E i \in Calls : AcquireReturn(i)
    \/ \E i \in Calls : Release(i)
    \/ \E i \in Calls : QueryGetSession(i)
    \/ \E i \in Calls : QuerySaveSession(i)
    \/ \E i \in Calls, how \in ExitPaths : QueryFinish(i, how)

(***************************************************************************)
(* SessionStore (part_013)                                                 *)
(***************************************************************************)

\* ---- bounds ----
MaxSessionId == 2
MaxStoreTicks == 2
MaxFaults == 1

\* options.ttlMs
TtlMs == 1000
SessionIds == 1..MaxSessionId

NoData == [kind |-> "none", rec |-> NoSession]
\* a file that was opened for writing and not written to the end
PartialData == [kind |-> "partial", rec |-> NoSession]

\* Buffer.from(name, "base64").toString(): the bytes of the sextets.
Base64DecodeFirstGroup(ss) ==
    IF Len(ss) < 4 THEN <<>> ELSE <<ss[1] * 4 + ss[2] \div 16>>
RECURSIVE Base64Decode(_)
Base64Decode(ss) ==
    IF Len(ss) < 4 THEN <<>>
    ELSE (<<ss[1] * 4 + ss[2] \div 16>>
          \o (IF ss[3] = Base64Pad THEN <<>> ELSE <<(ss[2] % 16) * 16 + ss[3] \div 4>>)
          \o (IF ss[3] = Base64Pad \/ ss[4] = Base64Pad THEN <<>>
              ELSE <<(ss[3] % 4) * 64 + ss[4]>>))
         \o Base64Decode(SubSeq(ss, 5, Len(ss)))

\* Outside persistSession its locals do not exist: they hold fixed values.
NoLocals ==
    [key |-> CHOOSE k \in Keys : TRUE, rec |-> NoSession,
     temp |-> TempPath(CHOOSE k \in Keys : TRUE, 0), old |-> NoData]

\* The operation that returned last: its name, its key argument (NoLocals.key
\* when it has none), the number of files its last step unlinked, whether an
\* exception left it, and for a save the content its destination file had
\* when the save began.
Did(op, k, n) == [op |-> op, key |-> k, n |-> n, threw |-> FALSE, old |-> NoData]

InitStore ==
    /\ sessions = [k \in Keys |-> NoSession]
    /\ files = EmptyDir
    /\ sp = "idle"
    /\ spKey = NoLocals.key
    /\ spRec = NoLocals.rec
    /\ spTemp = NoLocals.temp
    /\ spOld = NoLocals.old
    /\ faults = 0
    /\ did = Did("none", NoLocals.key, 0)

\* persistSession returns.
PersistReturn ==
    /\ sp' = "idle"
    /\ spKey' = NoLocals.key
    /\ spRec' = NoLocals.rec
    /\ spTemp' = NoLocals.temp
    /\ spOld' = NoLocals.old

DataAt(fs, f) == IF existsSync(fs, f) THEN fs[f].data ELSE NoData

\* saveSession (lines 53-56): sessions.set, then persistSession is entered.
SaveSession(k, rec) ==
    /\ sp = "idle"
    /\ sessions' = [sessions EXCEPT ![k] = rec]
    /\ sp' = "begin"
    /\ spKey' = k
    /\ spRec' = rec
    /\ spTemp' = TempPath(k, now)
    /\ spOld' = DataAt(files, getSessionFilePath(k))
    /\ did' = Did("saving", k, 0)
    /\ UNCHANGED <<files, faults, now, storeFrame>>

\* writeFileSync(tempPath, JSON.stringify(session), {mode: 0o600}), line 76.
PersistWriteTemp ==
    /\ sp = "begin"
    /\ files' = writeFileSync(files, spTemp, JsonOf(spRec), ModeOwnerRW)
    /\ sp' = "tempWritten"
    /\ UNCHANGED <<sessions, spKey, spRec, spTemp, spOld, faults, did, now, storeFrame>>

\* if (existsSync(filePath)) unlinkSync(filePath), lines 78-80.
PersistUnlinkDest ==
    /\ sp = "tempWritten"
    /\ files' = UnlinkOldDest(files, spKey)
    /\ sp' = "destCleared"
    /\ UNCHANGED <<sessions, spKey, spRec, spTemp, spOld, faults, did, now, storeFrame>>

\* renameSync(tempPath, filePath) succeeds, line 83.
PersistRename ==
    /\ sp = "destCleared"
    /\ files' = renameSync(files, spTemp, getSessionFilePath(spKey))
    /\ sp' = "renamed"
    /\ UNCHANGED <<sessions, spKey, spRec, spTemp, spOld, faults, did, now, storeFrame>>

\* renameSync throws: the inner catch is entered, line 84.
PersistRenameFails ==
    /\ sp = "destCleared"
    /\ faults < MaxFaults
    /\ faults' = faults + 1
    /\ sp' = "renameFailed"
    /\ UNCHANGED <<sessions, files, spKey, spRec, spTemp, spOld, did, now, storeFrame>>

\* writeFileSync(filePath, readFileSync(tempPath), {mode: 0o600}), line 85:
\* the destination is opened (created or truncated) ...
PersistFallbackOpen ==
    /\ sp = "renameFailed"
    /\ files' = writeFileSync(files, getSessionFilePath(spKey), PartialData, ModeOwnerRW)
    /\ sp' = "fallbackOpen"
    /\ UNCHANGED <<sessions, spKey, spRec, spTemp, spOld, faults, did, now, storeFrame>>

\* ... and the content of the temp file is written to it.
PersistFallbackWrite ==
    /\ sp = "fallbackOpen"
    /\ files' = writeFileSync(files, getSessionFilePath(spKey), files[spTemp].data, ModeOwnerRW)
    /\ sp' = "fallbackWritten"
    /\ UNCHANGED <<sessions, spKey, spRec, spTemp, spOld, faults, did, now, storeFrame>>

\* unlinkSync(tempPath), line 86.
PersistFallbackUnlinkTemp ==
    /\ sp = "fallbackWritten"
    /\ files' = unlinkSync(files, spTemp)
    /\ sp' = "renamed"
    /\ UNCHANGED <<sessions, spKey, spRec, spTemp, spOld, faults, did, now, storeFrame>>

\* cleanupTempFilesForKey(key), line 89.
PersistCleanup ==
    /\ sp = "renamed"
    /\ files' = cleanupTempFilesForKey(files, spKey)
    /\ PersistReturn
    /\ did' = [Did("saved", spKey, Cardinality(DOMAIN files \ DOMAIN files'))
                  EXCEPT !.old = spOld]
    /\ UNCHANGED <<sessions, faults, now, storeFrame>>

\* The next file operation throws: the error is logged (lines 90-92, or swallowed
\* in cleanupTempFilesForKey, lines 165-167) and persistSession returns.
PersistThrowForgets ==
    /\ sp \in {"begin", "tempWritten", "renameFailed", "fallbackOpen", "fallbackWritten", "renamed"}
    /\ faults < MaxFaults
    /\ faults' = faults + 1
    /\ PersistReturn
    /\ did' = Did("saveFailed", spKey, 0)
    /\ sessions' = [sessions EXCEPT ![spKey] = NoSession]
    /\ UNCHANGED <<files, now, storeFrame>>
PersistThrow ==
    /\ sp \in {"begin", "tempWritten", "renameFailed", "fallbackOpen", "fallbackWritten", "renamed"}
    /\ faults < MaxFaults
    /\ faults' = faults + 1
    /\ PersistReturn
    /\ did' = Did("saveFailed", spKey, 0)
    /\ UNCHANGED <<sessions, files, now, storeFrame>>

\* deletePersistedFile (lines 141-150): the session file of the key is
\* unlinked if it exists.
deletePersistedFileAndTemps(fs, k) == [x \in {f \in DOMAIN fs : f.b64 # Base64(k)} |-> fs[x]]
deletePersistedFile(fs, k) ==
    IF existsSync(fs, getSessionFilePath(k)) THEN unlinkSync(fs, getSessionFilePath(k)) ELSE fs

\* deleteSession (lines 62-65) with deletePersistedFile (lines 141-150).
DeleteSession(k) ==
    /\ sp = "idle"
    /\ sessions' = [sessions EXCEPT ![k] = NoSession]
    /\ files' = deletePersistedFile(files, k)
    /\ did' = Did("delete", k, Cardinality(DOMAIN files \ DOMAIN files'))
    /\ UNCHANGED <<persistLocals, faults, now, storeFrame>>

\* The expiry test of cleanupExpiredSessions (line 133).
ExpiredAtTtl(rec, t) == t - rec.createdAt >= TtlMs
Expired(rec, t) == t - rec.createdAt > TtlMs

\* cleanupExpiredSessions (lines 130-139).
CleanupExpiredSessions ==
    /\ sp = "idle"
    /\ LET gone == {k \in Keys : sessions[k] # NoSession /\ Expired(sessions[k], now)} IN
       /\ sessions' = [k \in Keys |-> IF k \in gone THEN NoSession ELSE sessions[k]]
       /\ files' = [x \in DOMAIN files \ {getSessionFilePath(k) : k \in gone} |-> files[x]]
    /\ did' = Did("cleanup", NoLocals.key, Cardinality(DOMAIN files \ DOMAIN files'))
    /\ UNCHANGED <<persistLocals, faults, now, storeFrame>>

\* loadAllPersistedSessions (lines 95-128) on memory `mem` and directory `fs` at time t.
SessionFiles(fs) == {f \in DOMAIN fs : f.stamp = NoStamp}
LoadsWhateverAge(fs, f, t) == fs[f].data.kind = "json"
Loads(fs, f, t) == fs[f].data.kind = "json" /\ t - fs[f].data.rec.createdAt <= TtlMs
LoadedSessions(mem, fs, t) ==
    [k \in Keys |->
        IF \E f \in SessionFiles(fs) : Loads(fs, f, t) /\ Base64Decode(f.b64) = k
        THEN fs[CHOOSE f \in SessionFiles(fs) : Loads(fs, f, t) /\ Base64Decode(f.b64) = k].data.rec
        ELSE mem[k]]
LoadedFilesKeepCorrupt(fs, t) ==
    [x \in DOMAIN fs \ {f \in SessionFiles(fs) : fs[f].data.kind = "json" /\ ~Loads(fs, f, t)}
        |-> fs[x]]
LoadedFiles(fs, t) ==
    [x \in DOMAIN fs \ {f \in SessionFiles(fs) : ~Loads(fs, f, t)} |-> fs[x]]

\* The process stops, at any point; a new process constructs the store and
\* calls loadAllPersistedSessions (client.ts lines 790-801).
Restart ==
    /\ sessions' = LoadedSessions([k \in Keys |-> NoSession], files, now)
    /\ files' = LoadedFiles(files, now)
    /\ sp # "idle" => faults < MaxFaults
    /\ faults' = IF sp = "idle" THEN faults ELSE faults + 1
    /\ PersistReturn
    /\ did' = Did("load", NoLocals.key, Cardinality(DOMAIN files \ DOMAIN files'))
    /\ UNCHANGED <<now, storeFrame>>

\* Something outside the store leaves a session file that is not JSON
\* (part_001 lines 91-100 write such a file into the directory).
CorruptFile(k) ==
    /\ sp = "idle"
    /\ existsSync(files, getSessionFilePath(k))
    /\ files[getSessionFilePath(k)].data # PartialData
    /\ faults < MaxFaults
    /\ faults' = faults + 1
    /\ files' = [files EXCEPT ![getSessionFilePath(k)].data = PartialData]
    /\ did' = Did("corrupted", k, 0)
    /\ UNCHANGED <<sessions, persistLocals, now, storeFrame>>

TickStore ==
    /\ sp = "idle"
    /\ now < MaxStoreTicks * TtlMs
    /\ now' = now + TtlMs
    /\ did' = Did("tick", NoLocals.key, 0)
    /\ UNCHANGED <<storeVars, persistLocals, faults, storeFrame>>

NextStore ==
    \/ \E k \in Keys, sid \in SessionIds :
          SaveSession(k, [sessionId |-> sid, createdAt |-> now])
    \/ PersistWriteTemp
    \/ PersistUnlinkDest
    \/ PersistRename
    \/ PersistRenameFails
    \/ PersistFallbackOpen
    \/ PersistFallbackWrite
    \/ PersistFallbackUnlinkTemp
    \/ PersistCleanup
    \/ PersistThrow
    \/ \E k \in Keys : DeleteSession(k)
    \/ CleanupExpiredSessions
    \/ Restart
    \/ \E k \in Keys : CorruptFile(k)
    \/ TickStore

\* getSession (lines 58-60)
getSession(k) == sessions[k]

\* loadAllPersistedSessions (lines 95-128) called on the running store.
LoadAllPersistedSessions ==
    /\ sp = "idle"
    /\ sessions' = LoadedSessions(sessions, files, now)
    /\ files' = LoadedFiles(files, now)
    /\ did' = Did("reload", NoLocals.key, Cardinality(DOMAIN files \ DOMAIN files'))
    /\ UNCHANGED <<persistLocals, faults, now, storeFrame>>

\* The operations of one store instance when no file operation fails.
NextStoreOps ==
    \/ \E k \in Keys, sid \in SessionIds :
          SaveSession(k, [sessionId |-> sid, createdAt |-> now])
    \/ PersistWriteTemp
    \/ PersistUnlinkDest
    \/ PersistRename
    \/ PersistCleanup
    \/ \E k \in Keys : DeleteSession(k)
    \/ CleanupExpiredSessions
    \/ LoadAllPersistedSessions
    \/ TickStore

(***************************************************************************)
(* Webhook job queue (server.ts lines 27-101)                              *)
(***************************************************************************)

\* ---- bounds ----
MaxEnqueues == 4
MaxJobTicks == 3

DEDUP_WINDOW_MS == 5000
DeliveryIds == {"d1", "d2"}
NoJob == -1
NoOutcome == [result |-> "none", logged |-> FALSE, rejected |-> FALSE]

InitJobs ==
    /\ jobQueue = [d \in DeliveryIds |-> NoJob]
    /\ processingJobs = {}
    /\ workers = [d \in DeliveryIds |-> 0]
    /\ enqSeq = 0
    /\ lastEnqueue = [id |-> CHOOSE d \in DeliveryIds : TRUE, started |-> FALSE, answer |-> "none"]
    /\ completedAt = [d \in DeliveryIds |-> NoJob]
    /\ outcome = [d \in DeliveryIds |-> NoOutcome]

\* "already processing this delivery", line 76
InFlightNever(d) == FALSE
InFlight(d) == d \in processingJobs

\* "recent duplicate", lines 82-83
RecentDuplicate(d) == jobQueue[d] # NoJob /\ now - jobQueue[d] < DEDUP_WINDOW_MS

\* line 100: processWebhookJob(job) is called and not awaited; it runs up to the
\* await of its handler and is in progress when enqueueJob returns
StartWorkerAwaited(w, d) == w
StartWorker(w, d) == [w EXCEPT ![d] = @ + 1]

\* The webhook route from its call of enqueueJob(event, payload, deliveryId)
\* (lines 71-101) to res.status(200).json({ status: "queued" }) (lines 489-496).
EnqueueJob(d) ==
    /\ enqSeq < MaxEnqueues
    /\ enqSeq' = enqSeq + 1
    /\ IF InFlight(d) \/ RecentDuplicate(d)
       THEN /\ lastEnqueue' = [id |-> d, started |-> FALSE, answer |-> "queued"]
            /\ UNCHANGED <<jobQueue, processingJobs, workers>>
       ELSE /\ jobQueue' = [jobQueue EXCEPT ![d] = now]
            /\ processingJobs' = processingJobs \cup {d}
            /\ workers' = StartWorker(workers, d)
            /\ lastEnqueue' = [id |-> d, started |-> TRUE, answer |-> "queued"]
    /\ UNCHANGED <<completedAt, outcome, now, jobFrame>>

\* How a handler ends, and the catch block of processWebhookJob (lines 59-61):
\* an error is logged and goes no further.
HandlerOutcomes == {"returns", "throws"}
ErrorLogged(o) == o = "throws"
ErrorRethrown(o) == FALSE
\* the finally block (lines 62-65): the id leaves the set whatever the outcome
FinallyDeleteIfReturned(set, d, o) == IF o = "returns" THEN set \ {d} ELSE set
FinallyDelete(set, d, o) == set \ {d}

\* The handler of a job returns or throws and processWebhookJob runs to its
\* end, lines 59-65.
FinishJob(d, o) ==
    /\ workers[d] > 0
    /\ workers' = [workers EXCEPT ![d] = @ - 1]
    /\ processingJobs' = FinallyDelete(processingJobs, d, o)
    /\ jobQueue' = [q \in DeliveryIds |->
                      IF q \in FinallyDelete(DeliveryIds, d, o) THEN jobQueue[q] ELSE NoJob]
    /\ completedAt' = [completedAt EXCEPT ![d] = now]
    /\ outcome' = [outcome EXCEPT ![d] =
                      [result |-> o, logged |-> ErrorLogged(o), rejected |-> ErrorRethrown(o)]]
    /\ UNCHANGED <<enqSeq, lastEnqueue, now, jobFrame>>

TickJobs ==
    /\ now < MaxJobTicks * (DEDUP_WINDOW_MS \div 2)
    /\ now' = now + DEDUP_WINDOW_MS \div 2
    /\ UNCHANGED <<jobVars, jobFrame>>

NextJobs ==
    \/ \E d \in DeliveryIds : EnqueueJob(d)
    \/ \E d \in DeliveryIds, o \in HandlerOutcomes : FinishJob(d, o)
    \/ TickJobs


(***************************************************************************)
(* GitHubRateLimiter: part_009 ("current") and rate-limiter.ts ("legacy")  *)
(***************************************************************************)

\* ---- bounds ----
MaxRetriesBound == 2

DEFAULT_REMAINING == 5000
LOW_REMAINING_THRESHOLD == 100
LOW_REMAINING_DELAY_MS == 200
SECONDARY_RATE_LIMIT_BASE_DELAY_MS == 5000
LimCallers == {1, 2}
\* the caller of the specifications with a single caller
SoloCallers == {1}

\* Header values are strings, written as tuples of characters.
NaN == -1000000
DigitChars == {"0", "1", "2", "3", "4", "5", "6", "7", "8", "9"}
DigitVal(ch) ==
    CASE ch = "0" -> 0 [] ch = "1" -> 1 [] ch = "2" -> 2 [] ch = "3" -> 3 [] ch = "4" -> 4
      [] ch = "5" -> 5 [] ch = "6" -> 6 [] ch = "7" -> 7 [] ch = "8" -> 8 [] ch = "9" -> 9
RECURSIVE ParseDigits(_, _)
ParseDigits(cs, acc) ==
    IF cs = <<>> THEN acc
    ELSE IF Head(cs) \notin DigitChars THEN acc
    ELSE ParseDigits(Tail(cs), acc * 10 + DigitVal(Head(cs)))
\* Number.parseInt(s, 10) for strings of digits and other characters
ParseInt(cs) ==
    IF cs = <<>> THEN NaN
    ELSE IF Head(cs) \notin DigitChars THEN NaN
    ELSE ParseDigits(cs, 0)
TimesOne(n) == n
Times1000(n) == IF n = NaN THEN NaN ELSE n * 1000

Absent == [present |-> FALSE, val |-> <<>>]
Hdr(cs) == [present |-> TRUE, val |-> cs]
MkHeaders(rem, reset, ra) == [remaining |-> rem, reset |-> reset, retryAfter |-> ra]
NoHeaders == MkHeaders(Absent, Absent, Absent)
\* a header value used as a condition: present and not the empty string
Truthy(h) == h.present /\ h.val # <<>>

\* setTimeout(resolve, ms): a delay below 1 or NaN is set to 1
TimerDelay(ms) == IF ms = NaN THEN 1 ELSE IF ms < 1 THEN 1 ELSE ms

\* What apiCall may answer.
SuccessHeaders ==
    { MkHeaders(Hdr(<<"4", "9", "9", "9">>), Absent, Absent),
      MkHeaders(Hdr(<<"5", "0">>), Absent, Absent),
      MkHeaders(Hdr(<<"0">>), Hdr(<<"9">>), Absent),
      NoHeaders }
MkErr(st, h, m) == [status |-> st, headers |-> h, message |-> m]
Errs ==
    { MkErr(403, NoHeaders, ""),
      MkErr(403, MkHeaders(Hdr(<<"0">>), Absent, Absent), ""),
      MkErr(403, MkHeaders(Hdr(<<"0">>), Absent, Hdr(<<"1">>)), ""),
      MkErr(403, MkHeaders(Hdr(<<"0">>), Hdr(<<"9">>), Absent), "API rate limit exceeded"),
      MkErr(403, MkHeaders(Hdr(<<"0">>), Hdr(<<"9">>), Hdr(<<"1">>)), "API rate limit exceeded"),
      MkErr(429, MkHeaders(Hdr(<<"0">>), Hdr(<<"9">>), Absent), ""),
      MkErr(429, NoHeaders, "You have exceeded a secondary rate limit"),
      MkErr(429, NoHeaders, ""),
      MkErr(500, NoHeaders, ""),
      MkErr(500, NoHeaders, "API rate limit exceeded") }
\* message?.includes("rate limit"), message?.includes("secondary rate limit")
MsgHasRateLimit(m) ==
    m \in {"API rate limit exceeded", "You have exceeded a secondary rate limit"}
MsgHasSecondary(m) == m = "You have exceeded a secondary rate limit"

NoErr == [id |-> 0, err |-> MkErr(0, NoHeaders, "")]

\* The limiter as constructed (part_009 lines 9-11, rate-limiter.ts lines 28-34).
NewLim == [remaining |-> DEFAULT_REMAINING, resetAt |-> 0, delay |-> 0]
NewLeg == [remaining |-> 5000, resetAt |-> 0, lastRequest |-> 0, minDelay |-> 100]

InitCallers ==
    /\ lpc = [c \in LimCallers |-> "idle"]
    /\ resume = [c \in LimCallers |-> "none"]
    /\ wakeAt = [c \in LimCallers |-> 0]
    /\ waitNow = [c \in LimCallers |-> 0]
    /\ attempt = [c \in LimCallers |-> 0]
    /\ maxRetries = [c \in LimCallers |-> 0]
    /\ callsMade = [c \in LimCallers |-> 0]
    /\ lastErr = [c \in LimCallers |-> NoErr]
    /\ thrown = [c \in LimCallers |-> NoErr]
    /\ sleeps = [c \in LimCallers |-> <<>>]
    /\ failMark = [c \in LimCallers |-> 0]
    /\ resp = [c \in LimCallers |-> NoHeaders]

updateFromHeadersStickyDelay(st, h) ==
    LET r1 == IF h.remaining.present
              THEN (IF ParseInt(h.remaining.val) # NaN THEN ParseInt(h.remaining.val)
                    ELSE st.remaining)
              ELSE st.remaining
        ra == IF h.reset.present
              THEN (IF ParseInt(h.reset.val) # NaN THEN ParseInt(h.reset.val) * 1000
                    ELSE st.resetAt)
              ELSE st.resetAt
        r2 == IF h.reset.present /\ ~h.remaining.present THEN 0 ELSE r1
    IN [remaining |-> r2, resetAt |-> ra,
        delay |-> IF r2 <= LOW_REMAINING_THRESHOLD THEN LOW_REMAINING_DELAY_MS ELSE st.delay]
\* part_009 updateFromHeaders (lines 13-39) applied to state st
updateFromHeaders(st, h) ==
    LET r1 == IF h.remaining.present
              THEN (IF ParseInt(h.remaining.val) # NaN THEN ParseInt(h.remaining.val)
                    ELSE st.remaining)
              ELSE st.remaining
        ra == IF h.reset.present
              THEN (IF ParseInt(h.reset.val) # NaN THEN ParseInt(h.reset.val) * 1000
                    ELSE st.resetAt)
              ELSE st.resetAt
        r2 == IF h.reset.present /\ ~h.remaining.present THEN 0 ELSE r1
    IN [remaining |-> r2, resetAt |-> ra,
        delay |-> IF r2 <= LOW_REMAINING_THRESHOLD THEN LOW_REMAINING_DELAY_MS ELSE 0]

\* part_009 getStatus (lines 41-47)
getStatusResetSeconds(st) ==
    [remaining |-> st.remaining, resetAt |-> st.resetAt \div 1000, delay |-> st.delay]
getStatus(st) == [remaining |-> st.remaining, resetAt |-> st.resetAt, delay |-> st.delay]

\* part_009 waitIfNeeded (lines 55-63): does it sleep, and how long
MustWaitIgnoresReset(st, t) == st.remaining <= 0
MustWait(st, t) == st.remaining <= 0 /\ st.resetAt > t
WaitMsNoBuffer(st, t) == st.resetAt - t
WaitMs(st, t) == st.resetAt - t + 1000
AfterWait(st) == [st EXCEPT !.remaining = DEFAULT_REMAINING, !.delay = 0]

\* rate-limiter.ts updateFromHeaders (lines 40-48) at time t
LegUpdateFromHeaders(st, h, t) ==
    [st EXCEPT !.remaining = IF Truthy(h.remaining) THEN ParseInt(h.remaining.val) ELSE @,
               !.resetAt = IF Truthy(h.reset) THEN ParseInt(h.reset.val) ELSE @,
               !.lastRequest = t]

\* rate-limiter.ts calculateRetryDelay (lines 77-82); jitter is
\* exponential * 0.1 * Math.random(), here one of its two extremes
Pow2(n) == IF n = 0 THEN 1 ELSE IF n = 1 THEN 2 ELSE IF n = 2 THEN 4 ELSE IF n = 3 THEN 8 ELSE 16
LegMaxDelay == 60000
Min(a, b) == IF a < b THEN a ELSE b
calculateRetryDelay(att, baseDelay, high) ==
    LET exponential == baseDelay * Pow2(att)
        jitter == IF high THEN exponential \div 10 - 1 ELSE 0
    IN Min(exponential + jitter, LegMaxDelay)

\* sleep(ms) is awaited
GoSleep(c, ms, r) ==
    /\ lpc' = [lpc EXCEPT ![c] = "sleeping"]
    /\ resume' = [resume EXCEPT ![c] = r]
    /\ wakeAt' = [wakeAt EXCEPT ![c] = now + TimerDelay(ms)]
    /\ sleeps' = [sleeps EXCEPT ![c] = Append(@, ms)]
GoTo(c, p) ==
    /\ lpc' = [lpc EXCEPT ![c] = p]
    /\ UNCHANGED <<resume, wakeAt, sleeps>>

\* executeWithRetry(apiCall, maxRetries) is called
ExecStart(c, mr) ==
    /\ lpc[c] = "idle"
    /\ lpc' = [lpc EXCEPT ![c] = "tryWait"]
    /\ attempt' = [attempt EXCEPT ![c] = 0]
    /\ maxRetries' = [maxRetries EXCEPT ![c] = mr]
    /\ callsMade' = [callsMade EXCEPT ![c] = 0]
    /\ lastErr' = [lastErr EXCEPT ![c] = NoErr]
    /\ thrown' = [thrown EXCEPT ![c] = NoErr]
    /\ sleeps' = [sleeps EXCEPT ![c] = <<>>]
    /\ failMark' = [failMark EXCEPT ![c] = 0]
    /\ resp' = [resp EXCEPT ![c] = NoHeaders]
    /\ UNCHANGED <<impl, lim, leg, resume, wakeAt, waitNow, observed, now, limFrame>>

\* part_009 line 73: await this.waitIfNeeded() in the try block
TryWaitIfNeeded(c) ==
    /\ impl = "current"
    /\ lpc[c] = "tryWait"
    /\ IF MustWait(lim, now)
       THEN GoSleep(c, WaitMs(lim, now), "waitTry")
       ELSE GoTo(c, "call")
    /\ UNCHANGED <<impl, lim, leg, waitNow, attempt, maxRetries, callsMade, lastErr, failMark, resp, observed, thrown,
                   now, limFrame>>

\* apiCall() is invoked (part_009 line 74, rate-limiter.ts line 98)
InvokeApi(c) ==
    /\ lpc[c] = "call"
    /\ callsMade' = [callsMade EXCEPT ![c] = @ + 1]
    /\ GoTo(c, "inflight")
    /\ UNCHANGED <<impl, lim, leg, waitNow, attempt, maxRetries, lastErr, failMark, resp, observed, thrown,
                   now, limFrame>>

\* part_009 lines 75-79: the call resolves with headers h
ApiSucceeds(c, h) ==
    /\ impl = "current"
    /\ lpc[c] = "inflight"
    /\ lim' = updateFromHeaders(lim, h)
    /\ IF lim'.delay > 0
       THEN GoSleep(c, lim'.delay, "floor")
       ELSE GoTo(c, "returned")
    /\ observed' = h
    /\ resp' = [resp EXCEPT ![c] = h]
    /\ UNCHANGED <<impl, leg, waitNow, attempt, maxRetries, callsMade, lastErr, failMark, thrown,
                   now, limFrame>>

\* part_009 line 86: no attempt is left
AttemptsExhaustedOffByOne(c, att) == att > maxRetries[c] + 1
AttemptsExhausted(c, att) == att > maxRetries[c]

\* part_009 lines 95 and 101: a 403 that says when to come back
HasRetryAfter(e) == Truthy(e.headers.retryAfter)
QuotaExhausted(e) == e.headers.remaining = Hdr(<<"0">>) /\ Truthy(e.headers.reset)

Throw(c, id, e) ==
    /\ thrown' = [thrown EXCEPT ![c] = [id |-> id, err |-> e]]
    /\ GoTo(c, "threw")

\* Math.floor(Math.random() * SECONDARY_RATE_LIMIT_BASE_DELAY_MS) (part_009 line 112):
\* its least and its greatest value
JitterValuesUpToBase == {0, SECONDARY_RATE_LIMIT_BASE_DELAY_MS}
JitterValues == {0, SECONDARY_RATE_LIMIT_BASE_DELAY_MS - 1}

\* part_009 lines 80-118: the call rejects with error e
ApiFails(c, e) ==
    /\ impl = "current"
    /\ lpc[c] = "inflight"
    /\ attempt' = [attempt EXCEPT ![c] = @ + 1]
    /\ lastErr' = [lastErr EXCEPT ![c] = [id |-> callsMade[c], err |-> e]]
    /\ failMark' = [failMark EXCEPT ![c] = Len(sleeps[c])]
    /\ UNCHANGED resp
    /\ observed' = IF /\ ~AttemptsExhausted(c, attempt[c] + 1)
                      /\ \/ e.status = 403 /\ (HasRetryAfter(e) \/ QuotaExhausted(e))
                         \/ e.status = 429
                   THEN e.headers ELSE observed
    /\ IF AttemptsExhausted(c, attempt[c] + 1)
       THEN Throw(c, callsMade[c], e) /\ UNCHANGED lim
       ELSE IF e.status = 403
       THEN IF HasRetryAfter(e)
            THEN /\ lim' = updateFromHeaders(lim, e.headers)
                 /\ GoSleep(c, Times1000(ParseInt(e.headers.retryAfter.val)), "retry")
                 /\ UNCHANGED thrown
            ELSE IF QuotaExhausted(e)
            THEN /\ lim' = updateFromHeaders(lim, e.headers)
                 /\ IF MustWait(lim', now)
                    THEN GoSleep(c, WaitMs(lim', now), "waitCatch")
                    ELSE GoTo(c, "tryWait")
                 /\ UNCHANGED thrown
            ELSE Throw(c, callsMade[c], e) /\ UNCHANGED lim
       ELSE IF e.status = 429
       THEN /\ lim' = updateFromHeaders(lim, e.headers)
            /\ \E jitter \in JitterValues :
                  GoSleep(c, SECONDARY_RATE_LIMIT_BASE_DELAY_MS + jitter, "retry")
            /\ UNCHANGED thrown
       ELSE Throw(c, callsMade[c], e) /\ UNCHANGED lim
    /\ UNCHANGED <<impl, leg, waitNow, maxRetries, callsMade, now, limFrame>>

\* The timer of a sleep inside waitIfNeeded fires (part_009 lines 59-61).
WakeWait(c) ==
    /\ lpc[c] = "sleeping" /\ resume[c] \in {"waitTry", "waitCatch"}
    /\ wakeAt[c] <= now
    /\ lim' = AfterWait(lim)
    /\ GoTo(c, IF resume[c] = "waitTry" THEN "call" ELSE "tryWait")
    /\ UNCHANGED <<impl, leg, waitNow, attempt, maxRetries, callsMade, lastErr, failMark, resp, observed, thrown,
                   now, limFrame>>

\* The timer of the floor sleep fires: executeWithRetry returns (part_009 lines 77-79).
WakeFloor(c) ==
    /\ lpc[c] = "sleeping" /\ resume[c] = "floor"
    /\ wakeAt[c] <= now
    /\ GoTo(c, "returned")
    /\ UNCHANGED <<impl, lim, leg, waitNow, attempt, maxRetries, callsMade, lastErr, failMark, resp, observed, thrown,
                   now, limFrame>>

\* The timer of a retry sleep fires: `continue` (part_009 lines 98, 114).
WakeRetry(c) ==
    /\ lpc[c] = "sleeping" /\ resume[c] = "retry"
    /\ wakeAt[c] <= now
    /\ GoTo(c, "tryWait")
    /\ UNCHANGED <<impl, lim, leg, waitNow, attempt, maxRetries, callsMade, lastErr, failMark, resp, observed, thrown,
                   now, limFrame>>

\* rate-limiter.ts waitIfNeeded, the minimum delay between requests (lines 67-71)
LegMinDelayStep(c, t) ==
    IF t - leg.lastRequest < leg.minDelay
    THEN GoSleep(c, leg.minDelay - (t - leg.lastRequest), "legMin")
    ELSE GoTo(c, "call")

\* rate-limiter.ts line 96: await this.waitIfNeeded(), lines 53-72
LegTryWaitIfNeeded(c) ==
    /\ impl = "legacy"
    /\ lpc[c] = "tryWait"
    /\ waitNow' = [waitNow EXCEPT ![c] = now]
    /\ IF leg.resetAt > 0
       THEN IF leg.resetAt * 1000 - now > 0
            THEN GoSleep(c, leg.resetAt * 1000 - now + 1000, "legReset")
            ELSE LegMinDelayStep(c, now)
       ELSE LegMinDelayStep(c, now)
    /\ UNCHANGED <<impl, lim, leg, attempt, maxRetries, callsMade, lastErr, failMark, resp, observed, thrown,
                   now, limFrame>>

\* rate-limiter.ts lines 61-71: after the reset sleep
LegWakeReset(c) ==
    /\ lpc[c] = "sleeping" /\ resume[c] = "legReset"
    /\ wakeAt[c] <= now
    /\ leg' = [leg EXCEPT !.resetAt = 0, !.remaining = 5000]
    /\ LegMinDelayStep(c, waitNow[c])
    /\ UNCHANGED <<impl, lim, waitNow, attempt, maxRetries, callsMade, lastErr, failMark, resp, observed, thrown,
                   now, limFrame>>

LegWakeMin(c) ==
    /\ lpc[c] = "sleeping" /\ resume[c] = "legMin"
    /\ wakeAt[c] <= now
    /\ GoTo(c, "call")
    /\ UNCHANGED <<impl, lim, leg, waitNow, attempt, maxRetries, callsMade, lastErr, failMark, resp, observed, thrown,
                   now, limFrame>>

\* rate-limiter.ts lines 99-105: the state after a response with headers h
LegAfterResponse(st0, h, t) ==
    LET st == LegUpdateFromHeaders(st0, h, t) IN
    IF st.remaining # NaN /\ st.remaining < 100
    THEN [st EXCEPT !.minDelay = Min(st.minDelay * 2, 1000)]
    ELSE st

\* rate-limiter.ts lines 98-107: the call resolves with headers h
LegApiSucceeds(c, h) ==
    /\ impl = "legacy"
    /\ lpc[c] = "inflight"
    /\ leg' = LegAfterResponse(leg, h, now)
    /\ GoTo(c, "returned")
    /\ observed' = h
    /\ resp' = [resp EXCEPT ![c] = h]
    /\ UNCHANGED <<impl, lim, waitNow, attempt, maxRetries, callsMade, lastErr, failMark, thrown,
                   now, limFrame>>

\* rate-limiter.ts lines 108-133: the call rejects with error e
LegApiFails(c, e) ==
    /\ impl = "legacy"
    /\ lpc[c] = "inflight"
    /\ lastErr' = [lastErr EXCEPT ![c] = [id |-> callsMade[c], err |-> e]]
    /\ failMark' = [failMark EXCEPT ![c] = Len(sleeps[c])]
    /\ UNCHANGED <<resp, observed>>
    /\ IF e.status = 403 \/ MsgHasRateLimit(e.message)
       THEN /\ IF Truthy(e.headers.retryAfter)
               THEN GoSleep(c, Times1000(ParseInt(e.headers.retryAfter.val)), "legRetry")
               ELSE \E high \in BOOLEAN :
                       GoSleep(c, calculateRetryDelay(attempt[c], 1000, high), "legRetry")
            /\ UNCHANGED thrown
       ELSE IF MsgHasSecondary(e.message) \/ e.status = 429
       THEN /\ \E high \in BOOLEAN :
                  GoSleep(c, calculateRetryDelay(attempt[c], 5000, high), "legRetry")
            /\ UNCHANGED thrown
       ELSE Throw(c, callsMade[c], e)
    /\ UNCHANGED <<impl, lim, leg, waitNow, attempt, maxRetries, callsMade, now,
                   limFrame>>

\* rate-limiter.ts: `continue`, the loop test of line 93, and line 136
LegWakeRetry(c) ==
    /\ lpc[c] = "sleeping" /\ resume[c] = "legRetry"
    /\ wakeAt[c] <= now
    /\ attempt' = [attempt EXCEPT ![c] = @ + 1]
    /\ IF attempt[c] + 1 <= maxRetries[c]
       THEN GoTo(c, "tryWait") /\ UNCHANGED thrown
       ELSE Throw(c, lastErr[c].id, lastErr[c].err)
    /\ UNCHANGED <<impl, lim, leg, waitNow, maxRetries, callsMade, lastErr, failMark, resp, observed, now,
                   limFrame>>

\* Time passes until the next timer is due.
Sleepers == {c \in LimCallers : lpc[c] = "sleeping"}
AdvanceClock ==
    /\ Sleepers # {}
    /\ \A c \in Sleepers : wakeAt[c] > now
    /\ now' = CHOOSE t \in {wakeAt[c] : c \in Sleepers} : \A c \in Sleepers : t <= wakeAt[c]
    /\ UNCHANGED <<limVars, limFrame>>

NextLimiter ==
    \/ \E c \in SoloCallers, mr \in 0..MaxRetriesBound : ExecStart(c, mr)
    \/ \E c \in SoloCallers : TryWaitIfNeeded(c)
    \/ \E c \in SoloCallers : InvokeApi(c)
    \/ \E c \in SoloCallers, h \in SuccessHeaders : ApiSucceeds(c, h)
    \/ \E c \in SoloCallers, e \in Errs : ApiFails(c, e)
    \/ \E c \in SoloCallers : WakeWait(c)
    \/ \E c \in SoloCallers : WakeFloor(c)
    \/ \E c \in SoloCallers : WakeRetry(c)
    \/ \E c \in SoloCallers : LegTryWaitIfNeeded(c)
    \/ \E c \in SoloCallers : LegWakeReset(c)
    \/ \E c \in SoloCallers : LegWakeMin(c)
    \/ \E c \in SoloCallers, h \in SuccessHeaders : LegApiSucceeds(c, h)
    \/ \E c \in SoloCallers, e \in Errs : LegApiFails(c, e)
    \/ \E c \in SoloCallers : LegWakeRetry(c)
    \/ AdvanceClock

\* part_009 reset (lines 49-53)
resetKeepsDelay(st) == [st EXCEPT !.remaining = DEFAULT_REMAINING, !.resetAt = 0]
reset(st) == [remaining |-> DEFAULT_REMAINING, resetAt |-> 0, delay |-> 0]
Reset ==
    /\ impl = "current"
    /\ lim' = reset(lim)
    /\ UNCHANGED <<impl, leg, lpc, resume, wakeAt, waitNow, attempt, maxRetries, callsMade, lastErr,
                   thrown, sleeps, failMark, resp, observed, now, limFrame>>

\* Several callers of executeWithRetry on the one limiter the module exports
\* (part_009 line 127): what their calls may answer.
SharedHeaders ==
    { MkHeaders(Hdr(<<"0">>), Hdr(<<"9">>), Absent),
      MkHeaders(Hdr(<<"0">>), Hdr(<<"2", "0">>), Absent),
      MkHeaders(Hdr(<<"5", "0">>), Absent, Absent) }
\* the maxRetries the callers pass
SharedRetries == {0, 1}
SharedErrs ==
    { MkErr(403, MkHeaders(Hdr(<<"0">>), Hdr(<<"9">>), Absent), "API rate limit exceeded"),
      MkErr(429, NoHeaders, ""),
      MkErr(500, NoHeaders, "") }

NextSharedLimiter ==
    \/ \E c \in LimCallers, mr \in SharedRetries : ExecStart(c, mr)
    \/ \E c \in LimCallers : TryWaitIfNeeded(c)
    \/ \E c \in LimCallers : InvokeApi(c)
    \/ \E c \in LimCallers, h \in SharedHeaders : ApiSucceeds(c, h)
    \/ \E c \in LimCallers, e \in SharedErrs : ApiFails(c, e)
    \/ \E c \in LimCallers : WakeWait(c)
    \/ \E c \in LimCallers : WakeFloor(c)
    \/ \E c \in LimCallers : WakeRetry(c)
    \/ Reset
    \/ AdvanceClock

(***************************************************************************)
(* Provider adapters: runSession of claude.ts and codex.ts                 *)
(***************************************************************************)

\* ---- bounds ----
MaxTurns == 3
MaxTurnTicks == 2

Providers == {"claude", "codex"}
NoTurn ==
    [phase |-> "none", provider |-> "claude", key |-> CHOOSE k \in Keys : TRUE,
     info |-> NoSession, resumed |-> NoCall]

InitTurns == turn = NoTurn /\ turnCount = 0

\* claude.ts lines 42-44, codex.ts lines 45-47: the session id handed to
\* resumeSession / resumeThread (NoCall: a session is created instead)
ResumedId(p, sessionInfo) ==
    IF sessionInfo # NoSession THEN sessionInfo.sessionId ELSE NoCall

\* runSession(options) of provider p: sessionStore.getSession(sessionKey) and the
\* choice between resuming and creating (claude.ts lines 32-44, codex.ts lines
\* 34-47)
TurnStart(p, k) ==
    /\ turn.phase # "running"
    /\ turnCount < MaxTurns
    /\ turnCount' = turnCount + 1
    /\ turn' = [phase |-> "running", provider |-> p, key |-> k,
                info |-> sessions[k], resumed |-> ResumedId(p, sessions[k])]
    /\ UNCHANGED <<storeVars, now, turnFrame>>

\* The runtime reports the session id (the init message of claude.ts lines
\* 60-70, thread.id of codex.ts lines 49-59) and the provider saves the record.
TurnSaves ==
    /\ turn.phase = "running"
    /\ LET sid == IF turn.resumed # NoCall THEN turn.resumed ELSE turnCount
           rec == [sessionId |-> sid, createdAt |-> now, provider |-> turn.provider]
       IN /\ sessions' = [sessions EXCEPT ![turn.key] = rec]
          /\ files' = persistSession(files, turn.key, rec, now)
    /\ turn' = [turn EXCEPT !.phase = "saved"]
    /\ UNCHANGED <<turnCount, now, turnFrame>>

\* The turn ends before any session id is reported (claude.ts lines 98-109,
\* codex.ts lines 65-72): nothing is saved.
TurnFails ==
    /\ turn.phase = "running"
    /\ turn' = [turn EXCEPT !.phase = "failed"]
    /\ UNCHANGED <<turnCount, storeVars, now, turnFrame>>

TickTurns ==
    /\ now < MaxTurnTicks * TtlMs
    /\ now' = now + TtlMs
    /\ UNCHANGED <<turnVars, storeVars, turnFrame>>

NextTurns ==
    \/ \E p \in Providers, k \in Keys : TurnStart(p, k)
    \/ TurnSaves
    \/ TurnFails
    \/ TickTurns


(***************************************************************************)
(* The stop command: handleStopCommand (server.ts) and clearSession        *)
(***************************************************************************)

\* ---- bounds ----
MaxStops == 1

NoStop == -1
InitStops == stopMark = [k \in Keys |-> NoStop] /\ stopCount = 0

\* the acquire calls made so far
CallsMade == Cardinality({i \in Calls : pc[i] # "idle"})

\* handleStopCommand (server.ts lines 329-344): clearSession(context), that is
\* sessionStore.deleteSession(sessionKey) (client.ts lines 1106-1109), is called
\* at once; the session lock is not acquired.
StopCommand(k) ==
    /\ stopCount < MaxStops
    /\ stopCount' = stopCount + 1
    /\ stopMark' = [stopMark EXCEPT ![k] = CallsMade]
    /\ sessions' = [sessions EXCEPT ![k] = NoSession]
    /\ files' = deletePersistedFile(files, k)
    /\ UNCHANGED <<lockVars, persistVars, jobVars, limVars, turnVars, now>>

\* Turns of executeSessionQuery and stop commands on one conversation, in any
\* order.
StopKey == CHOOSE k \in Keys : TRUE
NextStop ==
    \/ \E i \in Calls : AcquireCall(i, StopKey, "query")
    \/ \E i \in Calls : TailSettle(i)
    \/ \E i \in Calls : AcquireReturn(i)
    \/ \E i \in Calls : QueryGetSession(i)
    \/ \E i \in Calls : QuerySaveSession(i)
    \/ \E i \in Calls, how \in ExitPaths : QueryFinish(i, how)
    \/ StopCommand(StopKey)

(***************************************************************************)
(* Specifications                                                          *)
(***************************************************************************)

InitLimiter ==
    InitCallers /\ impl = "current" /\ lim = NewLim /\ leg = NewLeg /\ observed = NoHeaders
InitAll == InitLock /\ InitStore /\ InitJobs /\ InitLimiter /\ InitTurns /\ InitStops /\ now = 0

LockSpec == InitAll /\ [][NextLock]_vars
StoreSpec == InitAll /\ [][NextStore]_vars
StoreOpsSpec == InitAll /\ [][NextStoreOps]_vars
JobSpec == InitAll /\ [][NextJobs]_vars
TurnSpec == InitAll /\ [][NextTurns]_vars
StopSpec == InitAll /\ [][NextStop]_vars

\* The limiter of either source file, in a state an earlier response left.
InitLimiterSpec ==
    /\ InitLock /\ InitStore /\ InitJobs /\ InitCallers /\ InitTurns /\ InitStops /\ now = 0
    /\ \E h \in SuccessHeaders :
          /\ observed = h
          /\ \/ impl = "current" /\ lim = updateFromHeaders(NewLim, h) /\ leg = NewLeg
             \/ impl = "legacy" /\ lim = NewLim /\ leg = LegAfterResponse(NewLeg, h, 0)
LimiterSpec == InitLimiterSpec /\ [][NextLimiter]_vars
SharedLimiterSpec == InitAll /\ [][NextSharedLimiter]_vars

\* A call of executeWithRetry that was started goes on: apiCall settles, timers
\* fire, time passes.
CallerStep(c) ==
    \/ TryWaitIfNeeded(c) \/ InvokeApi(c)
    \/ (\E h \in SuccessHeaders : ApiSucceeds(c, h)) \/ (\E e \in Errs : ApiFails(c, e))
    \/ WakeWait(c) \/ WakeFloor(c) \/ WakeRetry(c)
    \/ LegTryWaitIfNeeded(c) \/ LegWakeReset(c) \/ LegWakeMin(c)
    \/ (\E h \in SuccessHeaders : LegApiSucceeds(c, h)) \/ (\E e \in Errs : LegApiFails(c, e))
    \/ LegWakeRetry(c)
LimiterFairSpec ==
    /\ LimiterSpec
    /\ \A c \in LimCallers : WF_vars(CallerStep(c))
    /\ WF_vars(AdvanceClock)

\* The lock used directly, with the scheduling the runtime guarantees: a
\* continuation whose promise is fulfilled runs; nothing obliges a holder to release.
NextRawLock ==
    \/ \E i \in Calls, k \in Keys : AcquireCall(i, k, "raw")
    \/ \E i \in Calls : TailSettle(i)
    \/ \E i \in Calls : AcquireReturn(i)
    \/ \E i \in Calls : Release(i)

LockFairSpec ==
    /\ InitAll
    /\ [][NextRawLock]_vars
    /\ \A i \in Calls : WF_vars(TailSettle(i)) /\ WF_vars(AcquireReturn(i))

(***************************************************************************)
(* Properties                                                              *)
(***************************************************************************)

Granted(i) == pc[i] \notin {"idle", "waiting"}
Holds(i) == Granted(i) /\ ~released[i]
IndexOf(seq, x) == CHOOSE n \in 1..Len(seq) : seq[n] = x
\* j called acquire on i's key before i did
RequestedBefore(j, i) ==
    /\ pc[j] # "idle" /\ pc[i] # "idle" /\ j # i
    /\ callKey[j] = callKey[i]
    /\ IndexOf(reqOrder[callKey[i]], j) < IndexOf(reqOrder[callKey[i]], i)

\* C1: for every key at most one caller holds the lock, and a caller to whom
\* acquire(key) has returned finds that every caller that called acquire(key)
\* before it has invoked its release function.
C1_MutualExclusion ==
    /\ \A k \in Keys : Cardinality({i \in Calls : Holds(i) /\ callKey[i] = k}) <= 1
    /\ \A i, j \in Calls : (Granted(i) /\ RequestedBefore(j, i)) => released[j]

\* A caller holds a key after an earlier holder released it, while a third waits.
C1_Witness ==
    \E i, j, w \in Calls :
        /\ RequestedBefore(i, j) /\ RequestedBefore(j, w)
        /\ released[i] /\ Holds(j) /\ pc[w] = "waiting"

\* C2: grants on a key follow the order of the acquire calls: the call to which
\* acquire returns is the next one in request order after those already granted,
\* and the call granted just before it has invoked its release.
C2_FifoPerKey ==
    [][\A i \in Calls :
          (pc[i] = "waiting" /\ pc'[i] = "held") =>
             LET k == callKey[i]
                 n == Len(grantOrder[k]) + 1
             IN /\ reqOrder[k][n] = i
                /\ grantOrder'[k] = SubSeq(reqOrder[k], 1, n)
                /\ n > 1 => released[reqOrder[k][n - 1]]]_vars

\* Three calls on one key were granted, the last two having queued up while
\* the first held the lock.
C2_Witness ==
    \E k \in Keys :
        /\ Len(grantOrder[k]) >= 3
        /\ callPrev[grantOrder[k][2]] = grantOrder[k][1]
        /\ callPrev[grantOrder[k][3]] = grantOrder[k][2]

\* C3: a call waiting on a key whose earlier callers have all released is
\* granted, whatever happens on the other keys (holders that never release,
\* waiters queued behind them).
C3_DifferentKeysIndependent ==
    \A i \in Calls :
        (pc[i] = "waiting" /\ \A j \in Calls : RequestedBefore(j, i) => released[j])
            ~> Granted(i)

\* One key is held with a waiter queued behind the holder while a call on
\* another key, made after both, has been granted.
C3_Witness ==
    \E h, w, g \in Calls :
        /\ Holds(h) /\ pc[w] = "waiting" /\ RequestedBefore(h, w)
        /\ callKey[g] # callKey[h] /\ Granted(g)
        /\ tails[callKey[g]] = g

\* C4: the session-store accesses of executeSessionQuery invocations on one key
\* do not interleave, they occur in the order the lock was granted, and an
\* invocation reads the session the previously granted caller left.
AccessCalls(k) == [n \in 1..Len(accessLog[k]) |-> accessLog[k][n][1]]
C4_SessionAccessSerialized ==
    \A k \in Keys :
        LET log == AccessCalls(k) IN
        /\ \A a, b, c \in 1..Len(log) :
              (a < b /\ b < c /\ log[a] = log[c]) => log[b] = log[a]
        /\ \A a, b \in 1..Len(log) :
              (a < b /\ log[a] # log[b]) =>
                 IndexOf(grantOrder[k], log[a]) < IndexOf(grantOrder[k], log[b])
        /\ \A i \in Calls :
              (callKind[i] = "query" /\ callKey[i] = k
                 /\ pc[i] \in {"streaming", "saved", "done"}) =>
                 LET n == IndexOf(grantOrder[k], i) IN
                 seen[i] = IF n = 1 THEN NoSession ELSE leftBy[grantOrder[k][n - 1]]

\* Two invocations on one key both saved a session, and the later one resumed
\* the session the earlier one saved.
C4_Witness ==
    \E i, j \in Calls :
        /\ i # j /\ callKey[i] = callKey[j]
        /\ pc[i] = "done" /\ pc[j] = "saved"
        /\ seen[j].sessionId = i /\ sessions[callKey[j]].sessionId = i
        /\ Len(accessLog[callKey[i]]) >= 4

\* C5: while persistSession replaces the file of a key that already has a
\* persisted record, the destination file exists at every step and holds either
\* the complete previous record or the complete new one.
C5_SaveAllOrNothing ==
    (sp # "idle" /\ spOld.kind = "json") =>
        /\ existsSync(files, getSessionFilePath(spKey))
        /\ files[getSessionFilePath(spKey)].data \in {spOld, JsonOf(spRec)}

\* C6: enqueueJob for a delivery id that is in processingJobs starts no worker
\* and leaves jobQueue and processingJobs as they are, and no delivery id ever
\* has two workers.
C6_InFlightDropped ==
    [][/\ \A d \in DeliveryIds :
             (enqSeq' # enqSeq /\ lastEnqueue'.id = d /\ d \in processingJobs) =>
                /\ ~lastEnqueue'.started
                /\ UNCHANGED <<jobQueue, processingJobs, workers>>
       /\ \A d \in DeliveryIds : workers'[d] <= 1]_vars

\* A delivery was dropped while its job, queued a full dedup window earlier,
\* was still being processed.
C6_Witness ==
    /\ enqSeq >= 2 /\ ~lastEnqueue.started
    /\ lastEnqueue.id \in processingJobs
    /\ workers[lastEnqueue.id] = 1
    /\ now - jobQueue[lastEnqueue.id] >= DEDUP_WINDOW_MS

\* C7: enqueueJob for a delivery id whose job finished less than
\* DEDUP_WINDOW_MS ago starts no worker.
C7_RecentlyCompletedDropped ==
    [][\A d \in DeliveryIds :
          (/\ enqSeq' # enqSeq /\ lastEnqueue'.id = d
           /\ completedAt[d] # NoJob /\ d \notin processingJobs
           /\ now - completedAt[d] < DEDUP_WINDOW_MS) => ~lastEnqueue'.started]_vars

\* C8: once an invocation of the call has failed with status 403 and headers
\* that carry neither retry-after nor x-ratelimit-remaining = "0" together with
\* x-ratelimit-reset, executeWithRetry invokes the call no more and throws that
\* error, whatever maxRetries is.
NoActionableSignal(e) ==
    /\ e.status = 403
    /\ ~e.headers.retryAfter.present
    /\ ~(e.headers.remaining = Hdr(<<"0">>) /\ e.headers.reset.present)
C8_FailFastOn403 ==
    \A c \in LimCallers :
        NoActionableSignal(lastErr[c].err) =>
            /\ callsMade[c] = lastErr[c].id
            /\ lpc[c] \notin {"tryWait", "call", "inflight", "returned"}
            /\ lpc[c] = "threw" => thrown[c] = lastErr[c]

\* C9: executeWithRetry invokes the call at most maxRetries + 1 times; when
\* invocation number maxRetries + 1 fails, it throws the error of that
\* invocation; and a started executeWithRetry returns or throws.
Finished(c) == lpc[c] \in {"returned", "threw"}
C9_Cap ==
    \A c \in LimCallers :
        /\ callsMade[c] <= maxRetries[c] + 1
        /\ (lastErr[c].id = maxRetries[c] + 1) =>
              /\ lpc[c] \in {"threw", "sleeping"}
              /\ lpc[c] = "threw" => thrown[c] = lastErr[c]
C9_RetriesCapped ==
    /\ []C9_Cap
    /\ \A c \in LimCallers : (lpc[c] # "idle") ~> Finished(c)

\* With maxRetries = 2 the call was invoked three times, each invocation
\* failed, and the error of the third was thrown.
C9_Witness ==
    \E c \in LimCallers :
        /\ lpc[c] = "threw" /\ maxRetries[c] = 2 /\ callsMade[c] = 3
        /\ thrown[c].id = 3 /\ thrown[c].err.status \in {403, 429}
        /\ Len(sleeps[c]) >= 2

\* C10: an invocation of a release closure after its first one changes nothing
\* in the lock: not the tail map, not any promise, not any caller's position.
C10_ReleaseIdempotent ==
    [][\A i \in Calls :
          (relCalls[i] >= 1 /\ relCalls'[i] > relCalls[i]) =>
             /\ tails' = tails
             /\ released' = released
             /\ currentResolved' = currentResolved
             /\ tailResolved' = tailResolved
             /\ pc' = pc]_vars

\* A closure was invoked twice while a later caller of the key holds the lock
\* and owns the key's tail entry.
C10_Witness ==
    \E i, j \in Calls :
        /\ relCalls[i] = 2 /\ RequestedBefore(i, j)
        /\ Holds(j) /\ tails[callKey[j]] = j

\* What the session file of key k holds, and how old its record is.
FileRec(fs, k) == DataAt(fs, getSessionFilePath(k)).rec
HoldsJson(fs, k) == DataAt(fs, getSessionFilePath(k)).kind = "json"
AgeOf(rec) == now - rec.createdAt

\* C11: when saveSession(key, record) has returned with every step of
\* persistSession done, the key's file exists and its content is the record
\* that getSession(key) returns.
C11_DiskAgreesWithMemory ==
    did.op = "saved" =>
        /\ HoldsJson(files, did.key)
        /\ FileRec(files, did.key) = sessions[did.key]

\* A key was saved after time had passed, and its file holds what memory holds.
C11_Witness ==
    /\ did.op = "saved" /\ now > 0
    /\ sessions[did.key].createdAt = now
    /\ sessions[did.key].sessionId = MaxSessionId
    /\ HoldsJson(files, did.key)

\* C12: a record that was saved and persisted, and whose age is at most ttlMs,
\* is returned with the same sessionId, under the same key, by a fresh store
\* that loads the directory.
C12_RoundTripWithinTtl ==
    [][(sp = "idle" /\ did'.op = "load") =>
         \A k \in Keys :
            (/\ sessions[k] # NoSession
             /\ HoldsJson(files, k) /\ FileRec(files, k) = sessions[k]
             /\ AgeOf(sessions[k]) <= TtlMs)
            => sessions'[k].sessionId = sessions[k].sessionId]_vars

\* A fresh store has loaded a record whose age is exactly ttlMs.
C12_Witness ==
    /\ did.op = "load"
    /\ \E k \in Keys :
          /\ sessions[k].sessionId = MaxSessionId
          /\ AgeOf(sessions[k]) = TtlMs
          /\ HoldsJson(files, k)

\* C13: when a fresh store loads the directory, every persisted record older
\* than ttlMs is absent from memory afterwards and its file is gone.
C13_ExpiredDroppedOnLoad ==
    [][did'.op = "load" =>
         \A k \in Keys :
            (HoldsJson(files, k) /\ AgeOf(FileRec(files, k)) > TtlMs)
            => /\ sessions'[k] = NoSession
               /\ ~existsSync(files', getSessionFilePath(k))]_vars

\* A load unlinked a file that was never corrupted: an expired one.
C13_Witness ==
    /\ did.op = "load" /\ did.n >= 1 /\ faults = 0
    /\ \E k \in Keys : sessions[k] = NoSession /\ ~existsSync(files, getSessionFilePath(k))

\* C14: cleanupExpiredSessions removes the entry and the file of exactly the
\* in-memory entries with now - createdAt > ttlMs and leaves every other entry
\* and file as it was; a load keeps a record aged exactly ttlMs as well.
C14_CleanupExactlyExpired ==
    [][/\ did'.op = "cleanup" =>
            \A k \in Keys :
               LET f == getSessionFilePath(k) IN
               IF sessions[k] # NoSession /\ now - sessions[k].createdAt > TtlMs
               THEN sessions'[k] = NoSession /\ ~existsSync(files', f)
               ELSE /\ sessions'[k] = sessions[k]
                    /\ existsSync(files', f) = existsSync(files, f)
                    /\ IF existsSync(files, f) THEN files'[f] = files[f] ELSE TRUE
       /\ did'.op = "load" =>
            \A k \in Keys :
               (HoldsJson(files, k) /\ AgeOf(FileRec(files, k)) = TtlMs)
               => sessions'[k] = FileRec(files, k)]_vars

\* A sweep removed an entry and kept one whose age is exactly ttlMs.
C14_Witness ==
    /\ did.op = "cleanup" /\ did.n >= 1
    /\ \E k \in Keys :
          /\ sessions[k] # NoSession /\ AgeOf(sessions[k]) = TtlMs
          /\ HoldsJson(files, k)

C16_FailureKeepsMemory ==
    /\ [](sp # "idle" => sessions[spKey] = spRec)
    /\ [][did'.op = "saveFailed" =>
            /\ sp' = "idle" /\ ~did'.threw
            /\ sessions'[spKey] = spRec]_vars

\* A save failed, nothing of it is on disk, and memory has the record.
C16_Witness ==
    /\ did.op = "saveFailed"
    /\ sessions[did.key].sessionId = MaxSessionId
    /\ ~existsSync(files, getSessionFilePath(did.key))

\* The sleeps made since the last failed invocation; an invocation that follows
\* a failed one is in flight; the invocation in flight is failing now.
SleepsSinceFailure(c) == SubSeq(sleeps[c], failMark[c] + 1, Len(sleeps[c]))
RetryInFlight(c) ==
    lpc[c] = "inflight" /\ lastErr[c].id >= 1 /\ callsMade[c] = lastErr[c].id + 1
FailsNow(c) == lpc[c] = "inflight" /\ lastErr'[c].id = callsMade[c]
Retry403After(e) ==
    e.status = 403 /\ e.headers.retryAfter.present /\ ParseInt(e.headers.retryAfter.val) # NaN
Quota403(e) ==
    /\ e.status = 403 /\ ~e.headers.retryAfter.present
    /\ e.headers.remaining = Hdr(<<"0">>)
    /\ e.headers.reset.present /\ ParseInt(e.headers.reset.val) # NaN
\* what waitIfNeeded adds before the next invocation: nothing, or the wait
\* that ends 1000 ms after the recorded reset
WaitIfNeededOnly(sl) ==
    \/ sl = <<>>
    \/ Len(sl) = 1 /\ sl[1] > 0 /\ now = lim.resetAt + 1000

\* C17 as stated: between a 403 failure with retry-after = s and the next
\* invocation, part_009 sleeps s * 1000 ms and nothing else.
C17_RetryAfterSleepOnly ==
    \A c \in LimCallers :
        (impl = "current" /\ RetryInFlight(c) /\ Retry403After(lastErr[c].err))
        => SleepsSinceFailure(c) = <<ParseInt(lastErr[c].err.headers.retryAfter.val) * 1000>>

\* C17 amended: after a 403 failure with retry-after = s, part_009 sleeps
\* s * 1000 ms and then enters waitIfNeeded, which starts the invocation
\* at once unless remaining <= 0 with the reset in the future, when it
\* first waits until 1000 ms after the reset.
C17_RetryAfterThenWaitIfNeeded ==
    /\ [](\A c \in LimCallers :
            (impl = "current" /\ RetryInFlight(c) /\ Retry403After(lastErr[c].err))
            => LET sl == SleepsSinceFailure(c) IN
               /\ Len(sl) >= 1
               /\ sl[1] = ParseInt(lastErr[c].err.headers.retryAfter.val) * 1000
               /\ WaitIfNeededOnly(Tail(sl)))
    /\ [][\A c \in LimCallers :
            (/\ impl = "current" /\ lpc[c] = "tryWait" /\ lpc'[c] # "tryWait"
             /\ lastErr[c].id >= 1 /\ Retry403After(lastErr[c].err))
            => /\ SleepsSinceFailure(c)
                    = <<ParseInt(lastErr[c].err.headers.retryAfter.val) * 1000>>
               /\ IF lim.remaining <= 0 /\ lim.resetAt > now
                  THEN lpc'[c] = "sleeping" /\ wakeAt'[c] = lim.resetAt + 1000
                  ELSE lpc'[c] = "call"]_vars

\* The retry after a 403 with retry-after is in flight, after the retry-after
\* sleep and a wait for the reset.
C17_Witness ==
    \E c \in LimCallers :
        /\ impl = "current" /\ RetryInFlight(c) /\ Retry403After(lastErr[c].err)
        /\ Len(SleepsSinceFailure(c)) = 2
        /\ SleepsSinceFailure(c)[1] = 1000

\* C18: on a 403 failure without retry-after, with x-ratelimit-remaining "0"
\* and a reset time, and attempts remaining, part_009 records remaining = 0
\* and the reset time, waits in waitIfNeeded until 1000 ms after the reset when
\* the reset is in the future, and then invokes the call again, at or after
\* the reset.
C18_QuotaExhaustedWaitsForReset ==
    /\ [][\A c \in LimCallers :
            (/\ impl = "current" /\ FailsNow(c) /\ Quota403(lastErr'[c].err)
             /\ attempt'[c] <= maxRetries[c])
            => /\ lim'.remaining = 0
               /\ lim'.resetAt = ParseInt(lastErr'[c].err.headers.reset.val) * 1000
               /\ thrown'[c] = thrown[c]
               /\ IF lim'.resetAt > now
                  THEN lpc'[c] = "sleeping" /\ wakeAt'[c] = lim'.resetAt + 1000
                  ELSE lpc'[c] = "tryWait"]_vars
    /\ [](\A c \in LimCallers :
            (impl = "current" /\ RetryInFlight(c) /\ Quota403(lastErr[c].err))
            => /\ now >= lim.resetAt
               /\ WaitIfNeededOnly(SleepsSinceFailure(c)))
    /\ \A c \in LimCallers :
          (/\ impl = "current" /\ lpc[c] \in {"sleeping", "tryWait", "call"}
           /\ lastErr[c].id >= 1 /\ lastErr[c].id = callsMade[c] /\ Quota403(lastErr[c].err))
          ~> RetryInFlight(c)

\* The retry after such a 403 is in flight, 1000 ms after the reset.
C18_Witness ==
    \E c \in LimCallers :
        /\ impl = "current" /\ RetryInFlight(c) /\ Quota403(lastErr[c].err)
        /\ Len(SleepsSinceFailure(c)) = 1
        /\ now = lim.resetAt + 1000

\* C19 as stated: between a 429 failure and the next invocation, part_009 makes
\* one sleep, of 5000 <= d < 10000 ms.
C19_SecondaryOneSleep ==
    \A c \in LimCallers :
        (impl = "current" /\ RetryInFlight(c) /\ lastErr[c].err.status = 429)
        => /\ Len(SleepsSinceFailure(c)) = 1
           /\ SleepsSinceFailure(c)[1] >= SECONDARY_RATE_LIMIT_BASE_DELAY_MS
           /\ SleepsSinceFailure(c)[1] < 2 * SECONDARY_RATE_LIMIT_BASE_DELAY_MS

\* C19 amended: on a 429 failure with attempts remaining, whatever the headers,
\* part_009 does not throw; it sleeps 5000 <= d < 10000 ms and retries through
\* waitIfNeeded, which may add the wait for the reset that the headers of the
\* error recorded.
C19_SecondarySleepThenWaitIfNeeded ==
    /\ [][\A c \in LimCallers :
            (/\ impl = "current" /\ FailsNow(c) /\ lastErr'[c].err.status = 429
             /\ attempt'[c] <= maxRetries[c])
            => /\ lpc'[c] = "sleeping" /\ resume'[c] = "retry"
               /\ thrown'[c] = thrown[c]]_vars
    /\ [](\A c \in LimCallers :
            (impl = "current" /\ RetryInFlight(c) /\ lastErr[c].err.status = 429)
            => LET sl == SleepsSinceFailure(c) IN
               /\ Len(sl) >= 1
               /\ sl[1] >= SECONDARY_RATE_LIMIT_BASE_DELAY_MS
               /\ sl[1] < 2 * SECONDARY_RATE_LIMIT_BASE_DELAY_MS
               /\ WaitIfNeededOnly(Tail(sl)))

\* The retry after a 429 is in flight after a sleep with the greatest jitter.
C19_Witness ==
    \E c \in LimCallers :
        /\ impl = "current" /\ RetryInFlight(c) /\ lastErr[c].err.status = 429
        /\ SleepsSinceFailure(c) = <<2 * SECONDARY_RATE_LIMIT_BASE_DELAY_MS - 1>>

\* C20: once an invocation has failed with a status other than 403 and 429,
\* executeWithRetry has thrown that error, with no sleep and no further
\* invocation, whatever maxRetries is.
C20_OtherErrorsNotRetried ==
    \A c \in LimCallers :
        (lastErr[c].id >= 1 /\ lastErr[c].err.status \notin {403, 429})
        => /\ lpc[c] = "threw" /\ thrown[c] = lastErr[c]
           /\ callsMade[c] = lastErr[c].id
           /\ SleepsSinceFailure(c) = <<>>


(***************************************************************************)
(* The low-water floor delay                                               *)
(***************************************************************************)

\* apiCall of caller c resolves in this step
SucceedsNow(c) == lpc[c] = "inflight" /\ lpc'[c] # "inflight" /\ ~FailsNow(c)
\* what a response's x-ratelimit-remaining header reports
ReportsLow(h) ==
    /\ h.remaining.present /\ ParseInt(h.remaining.val) # NaN
    /\ ParseInt(h.remaining.val) <= LOW_REMAINING_THRESHOLD
ReportsHigh(h) ==
    /\ h.remaining.present /\ ParseInt(h.remaining.val) # NaN
    /\ ParseInt(h.remaining.val) > LOW_REMAINING_THRESHOLD
\* executeWithRetry of caller c sleeps the floor before it returns
SleepsFloor(c) ==
    /\ lpc'[c] = "sleeping" /\ resume'[c] = "floor"
    /\ sleeps'[c] = Append(sleeps[c], LOW_REMAINING_DELAY_MS)
    /\ wakeAt'[c] = now + LOW_REMAINING_DELAY_MS
ReturnsAtOnce(c) == lpc'[c] = "returned" /\ sleeps'[c] = sleeps[c]

\* C21: in the current limiter the delay is 200 ms exactly while the recorded
\* remaining is at most 100; a successful call whose response reports
\* remaining <= 100 sets the delay to 200 and sleeps 200 ms before returning,
\* one whose response reports remaining > 100 sets the delay to 0 and returns
\* without sleeping, and one whose response reports nothing keeps the delay
\* and sleeps the floor exactly when the delay is 200.
C21_StepOk(c) ==
    SucceedsNow(c) =>
        LET h == resp'[c] IN
        /\ ReportsLow(h) => lim'.delay = LOW_REMAINING_DELAY_MS /\ SleepsFloor(c)
        /\ ReportsHigh(h) => lim'.delay = 0 /\ ReturnsAtOnce(c)
        /\ (~ReportsLow(h) /\ ~ReportsHigh(h)) =>
              /\ lim'.delay = lim.delay
              /\ IF lim.delay > 0 THEN SleepsFloor(c) ELSE ReturnsAtOnce(c)
C22_EntryOk(c) ==
    (lpc[c] = "tryWait" /\ lpc'[c] # "tryWait") =>
        IF lim.remaining <= 0 /\ lim.resetAt > now
        THEN /\ lpc'[c] = "sleeping" /\ resume'[c] = "waitTry"
             /\ sleeps'[c] = Append(sleeps[c], lim.resetAt - now + 1000)
             /\ wakeAt'[c] = now + (lim.resetAt - now + 1000)
        ELSE /\ lpc'[c] = "call" /\ sleeps'[c] = sleeps[c]
             /\ lim' = lim
C22_WakeOk(c) ==
    (lpc[c] = "sleeping" /\ resume[c] \in {"waitTry", "waitCatch"} /\ lpc'[c] # "sleeping") =>
        /\ lim'.remaining = DEFAULT_REMAINING
        /\ lim'.resetAt = lim.resetAt
        /\ sleeps'[c] = sleeps[c]
C22_WaitIfNeeded ==
    [][impl = "current" => \A c \in LimCallers : C22_EntryOk(c) /\ C22_WakeOk(c)]_vars
\* waitIfNeeded slept until one second past the reset and restored remaining,
\* and later ran again with remaining exhausted but resetAt already past
C22_Witness ==
    \E c \in LimCallers :
        /\ impl = "current" /\ lpc[c] = "call"
        /\ Len(sleeps[c]) >= 1 /\ sleeps[c][1] = 10000
        /\ lim.remaining <= 0 /\ lim.resetAt <= now


(***************************************************************************)
(* The job queue: accepting and finishing                                  *)
(***************************************************************************)

\* C23: every webhook request that reaches enqueueJob is answered "queued" in
\* the step that accepts it; when it started a job, that job's handler is still
\* pending at that moment, and no handler, of this or of any other job, has to
\* finish for the answer to be given.
C23_EnqueueDoesNotWait ==
    [][enqSeq' # enqSeq =>
          /\ lastEnqueue'.answer = "queued"
          /\ lastEnqueue'.started =>
                /\ workers'[lastEnqueue'.id] = workers[lastEnqueue'.id] + 1
                /\ lastEnqueue'.id \in processingJobs'
          /\ \A d \in DeliveryIds : workers'[d] >= workers[d]
          /\ outcome' = outcome]_vars
\* a request was answered and its job started while the handler of another
\* job, queued more than a dedup window earlier, had still not finished
C23_Witness ==
    /\ lastEnqueue.answer = "queued" /\ lastEnqueue.started
    /\ workers[lastEnqueue.id] = 1 /\ jobQueue[lastEnqueue.id] = now
    /\ \E d \in DeliveryIds \ {lastEnqueue.id} :
          /\ workers[d] = 1 /\ d \in processingJobs
          /\ now - jobQueue[d] > DEDUP_WINDOW_MS

\* C24: when a handler finishes, returning or throwing, its job id is in neither
\* processingJobs nor jobQueue afterwards; a thrown error is logged, is not
\* passed on and changes nothing for the caller of enqueueJob; and no id is
\* in processingJobs without a handler in progress.
C24_FinishCleansUp ==
    /\ [](\A d \in DeliveryIds : workers[d] = 0 => d \notin processingJobs)
    /\ [][\A d \in DeliveryIds :
            workers'[d] < workers[d] =>
               /\ d \notin processingJobs' /\ jobQueue'[d] = NoJob
               /\ outcome'[d].result \in HandlerOutcomes
               /\ outcome'[d].result = "throws" =>
                     outcome'[d].logged /\ ~outcome'[d].rejected
               /\ outcome'[d].result = "returns" => ~outcome'[d].logged
               /\ lastEnqueue' = lastEnqueue /\ enqSeq' = enqSeq]_vars
\* a handler threw and its id is gone from both collections
C24_Witness ==
    \E d \in DeliveryIds :
        /\ outcome[d].result = "throws" /\ outcome[d].logged
        /\ workers[d] = 0 /\ d \notin processingJobs /\ jobQueue[d] = NoJob
        /\ completedAt[d] = now


(***************************************************************************)
(* Provider turns and the stored record                                    *)
(***************************************************************************)

\* C25: when a turn resumes the session record of its key, the record saved by
\* the turn has the createdAt the record had before the turn.
C25_ResumeKeepsCreatedAt ==
    [][(turn.phase = "running" /\ turn'.phase = "saved" /\ turn.info # NoSession) =>
          sessions'[turn.key].createdAt = turn.info.createdAt]_vars

\* C26: a turn that finds a record saved by another provider does not resume
\* that record's sessionId: it creates a new session and the record is dropped.
C26_NoCrossProviderResume ==
    [][(turn.phase # "running" /\ turn'.phase = "running"
        /\ turn'.info # NoSession /\ turn'.info.provider # turn'.provider) =>
          /\ turn'.resumed = NoCall
          /\ sessions'[turn'.key] = NoSession]_vars


(***************************************************************************)
(* SessionStore: one record per key, deletion, temporary files             *)
(***************************************************************************)

\* the session files (`.json`) of key k in directory fs
SessionFilesOf(fs, k) == {f \in SessionFiles(fs) : f.b64 = Base64(k)}

\* C27: when saveSession(k, r2) returns after a successful persist, whatever
\* record r1 was saved for k before, getSession(k) is r2 and the directory has
\* exactly one session file for k, which holds r2.
C27_LastWriteWins ==
    [][(sp = "renamed" /\ did'.op = "saved") =>
          /\ did'.key = spKey /\ sp' = "idle"
          /\ sessions'[spKey] = spRec
          /\ Cardinality(SessionFilesOf(files', spKey)) = 1
          /\ HoldsJson(files', spKey) /\ FileRec(files', spKey) = spRec]_vars
\* a save returned for a key whose file held a different record before
C27_Witness ==
    /\ did.op = "saved" /\ did.old.kind = "json"
    /\ did.old.rec # sessions[did.key]
    /\ FileRec(files, did.key) = sessions[did.key]
    /\ Cardinality(SessionFilesOf(files, did.key)) = 1


\* C28: deleteSession(k) returns without an exception; afterwards k has no
\* entry and no session file, and every other entry and every other file is as
\* before. For a key with no entry and no file it changes nothing, and a second
\* call right after a first one changes nothing either.
C28_StepOk(k) ==
    (did'.op = "delete" /\ did'.key = k /\ (did' # did \/ sessions' # sessions \/ files' # files)) =>
        /\ ~did'.threw
        /\ sessions'[k] = NoSession
        /\ \A q \in Keys \ {k} : sessions'[q] = sessions[q]
        /\ DOMAIN files' = DOMAIN files \ {getSessionFilePath(k)}
        /\ \A f \in DOMAIN files' : files'[f] = files[f]
        /\ (sessions[k] = NoSession /\ ~existsSync(files, getSessionFilePath(k))) =>
              sessions' = sessions /\ files' = files
        /\ (did.op = "delete" /\ did.key = k) => sessions' = sessions /\ files' = files
C28_DeleteIdempotent ==
    [][\A k \in Keys : C28_StepOk(k)]_vars
\* deleteSession was called for a key whose record and file an earlier call had
\* removed, while a temporary file of that key and the record of the other key
\* stayed
C28_Witness ==
    /\ did.op = "delete" /\ did.n = 0
    /\ sessions[did.key] = NoSession /\ ~existsSync(files, getSessionFilePath(did.key))
    /\ TempFilesForKey(files, did.key) # {}
    /\ \E q \in Keys \ {did.key} : sessions[q] # NoSession /\ HoldsJson(files, q)


\* C29: when saveSession(key, ...) returns after a successful persist, the
\* directory holds no temporary file of that key; and no step of a save
\* removes or changes a file of another key.
C29_StaleTempsRemoved ==
    [][/\ (sp = "renamed" /\ did'.op = "saved") =>
             {f \in DOMAIN files' : f.b64 = Base64(spKey) /\ f.stamp # NoStamp} = {}
       /\ (sp # "idle" /\ did'.op # "load") =>
             \A f \in DOMAIN files :
                 f.b64 # Base64(spKey) => f \in DOMAIN files' /\ files'[f] = files[f]]_vars
\* a save returned after its cleanup removed a temporary file that an earlier,
\* interrupted save of the same key had left
C29_Witness ==
    /\ did.op = "saved" /\ did.n = 1 /\ faults >= 1
    /\ \A f \in DOMAIN files : f.stamp = NoStamp
    /\ HoldsJson(files, did.key)


(***************************************************************************)
(* AsyncKeyedLock: pruning of the tail map                                 *)
(***************************************************************************)

\* the callers of acquire(k) that hold the lock or wait for it
Busy(k) == {i \in Calls : callKey[i] = k /\ (pc[i] = "waiting" \/ Holds(i))}

\* C30: a key whose callers have all released and that nobody waits on has no
\* entry in the tail map, and the entries are never more than the keys with a
\* holder or a waiter.
C30_EntriesPruned ==
    /\ \A k \in Keys : Busy(k) = {} => tails[k] = NoCall
    /\ Cardinality({k \in Keys : tails[k] # NoCall})
          <= Cardinality({k \in Keys : Busy(k) # {}})
\* two callers queued on one key and both released: its entry is gone, while
\* the other key has a holder and an entry
C30_Witness ==
    \E k \in Keys :
        /\ Len(grantOrder[k]) >= 2
        /\ \A n \in 1..Len(grantOrder[k]) : released[grantOrder[k][n]]
        /\ Busy(k) = {} /\ tails[k] = NoCall
        /\ \E q \in Keys \ {k} : Busy(q) # {} /\ tails[q] # NoCall


(***************************************************************************)
(* The limiter's state after a response                                    *)
(***************************************************************************)

\* C31: after updateFromHeaders on the headers of a response, getStatus reports
\* as remaining the integer of x-ratelimit-remaining and as resetAt the instant
\* 1000 ms times the integer of x-ratelimit-reset.
C31_StatusFromHeaders ==
    [][impl = "current" =>
         \A c \in LimCallers :
            SucceedsNow(c) =>
               LET h == resp'[c]
                   status == getStatus(lim')
               IN /\ (h.remaining.present /\ ParseInt(h.remaining.val) # NaN) =>
                         status.remaining = ParseInt(h.remaining.val)
                  /\ (h.reset.present /\ ParseInt(h.reset.val) # NaN) =>
                         status.resetAt = ParseInt(h.reset.val) * 1000
                  /\ status.delay = lim'.delay]_vars
\* after an earlier sleep of the same call, a response carried remaining "0"
\* and reset "9": the status is remaining 0 and resetAt 9000
C31_Witness ==
    \E c \in LimCallers :
        /\ impl = "current" /\ lpc[c] = "sleeping" /\ resume[c] = "floor"
        /\ resp[c] = MkHeaders(Hdr(<<"0">>), Hdr(<<"9">>), Absent)
        /\ getStatus(lim).remaining = 0 /\ getStatus(lim).resetAt = 9000
        /\ Len(sleeps[c]) >= 2


(***************************************************************************)
(* SessionStore: permissions, agreement of memory and disk, expiry         *)
(***************************************************************************)

\* C32: every session file in the directory has mode 0600, at every step, and
\* when saveSession returns the file of its key has mode 0600, whether the
\* rename or the copy fallback produced it and whether or not the key had a
\* file before.
C32_SessionFilesOwnerOnly ==
    /\ \A f \in SessionFiles(files) : files[f].mode = 384
    /\ did.op = "saved" =>
          /\ existsSync(files, getSessionFilePath(did.key))
          /\ files[getSessionFilePath(did.key)].mode = 384
\* the copy fallback has just written the session file of a key that had a
\* file before
C32_Witness ==
    /\ sp = "fallbackWritten" /\ spOld.kind = "json"
    /\ HoldsJson(files, spKey) /\ FileRec(files, spKey) = spRec
    /\ files[getSessionFilePath(spKey)].mode = 384


(***************************************************************************)
(* AsyncKeyedLock: liveness                                                *)
(***************************************************************************)

\* C33: if every caller that is granted a key eventually invokes its release
\* closure, every call of acquire eventually returns.
C33_EveryAcquireReturns ==
    (\A j \in Calls : [](Granted(j) => <>released[j]))
        => (\A i \in Calls : pc[i] = "waiting" ~> Granted(i))
\* the third caller queued on one key was granted after the two before it had
\* released and the second had pruned nothing
C33_Witness ==
    \E k \in Keys :
        /\ Len(grantOrder[k]) = NumCalls
        /\ \A n \in 1..(NumCalls - 1) : released[grantOrder[k][n]]
        /\ Holds(grantOrder[k][NumCalls]) /\ tails[k] = grantOrder[k][NumCalls]


(***************************************************************************)
(* executeSessionQuery and the session lock                                *)
(***************************************************************************)

\* C34: on every way out of executeSessionQuery after the lock was acquired the
\* release closure is invoked exactly once and the lock is released, so that a
\* call on the same key queued behind it is granted whatever the outcome.
C34_StepOk(i) ==
    (callKind[i] = "query" /\ pc[i] # "done" /\ pc'[i] = "done") =>
        /\ Holds(i) /\ released'[i]
        /\ relCalls[i] = 0 /\ relCalls'[i] = 1
        /\ currentResolved'[i]
C34_LockNeverLeaked ==
    /\ [](\A i \in Calls : (callKind[i] = "query" /\ pc[i] = "done") =>
                               released[i] /\ relCalls[i] = 1)
    /\ [](\A i \in Calls : (callKind[i] = "query" /\ relCalls[i] > 0) => pc[i] = "done")
    /\ [][\A i \in Calls : C34_StepOk(i)]_vars
\* the only turn that has ended left through the catch block, and a turn queued
\* behind it on the same key now holds the lock
C34_Witness ==
    \E i, j \in Calls :
        /\ callKind[i] = "query" /\ pc[i] = "done" /\ exitPath = "catch"
        /\ \A x \in Calls \ {i} : pc[x] # "done"
        /\ callKind[j] = "query" /\ callKey[j] = callKey[i] /\ RequestedBefore(i, j)
        /\ pc[j] = "streaming"


\* C35: from the moment a stop command has cleared the session of a key until a
\* call of executeSessionQuery made after the stop is granted the lock of that
\* key, the key has no record in memory and no session file.
C35_StopNotUndone ==
    \A k \in Keys :
        (/\ stopMark[k] # NoStop
         /\ \A i \in Calls : (i > stopMark[k] /\ callKey[i] = k) => ~Granted(i))
            => /\ sessions[k] = NoSession
               /\ ~existsSync(files, getSessionFilePath(k))

\* Whether the headers last passed to updateFromHeaders report remaining 0 with a
\* reset time after t.
ObservedExhausted(t) ==
    /\ observed.remaining.present /\ ParseInt(observed.remaining.val) = 0
    /\ observed.reset.present /\ ParseInt(observed.reset.val) # NaN
    /\ Times1000(ParseInt(observed.reset.val)) > t

\* C36: with several callers on the shared limiter, a waitIfNeeded that wakes from
\* an earlier exhaustion window does not erase a newer observation: when the most
\* recently observed headers report remaining 0 with a reset time still in the
\* future and the limiter holds them, the limiter still makes the calls that
\* follow wait for that reset.
C36_NewerObservationKept ==
    [][\A c \in LimCallers :
          (/\ lpc[c] = "sleeping" /\ resume[c] \in {"waitTry", "waitCatch"}
           /\ lpc'[c] # "sleeping"
           /\ ObservedExhausted(now)
           /\ lim.remaining = 0 /\ lim.resetAt = Times1000(ParseInt(observed.reset.val)))
          => MustWait(lim', now')]_vars

\* C37: no back-to-back retries in executeWithRetry of part_009: when the call is
\* invoked again after an invocation failed with status 403 or 429, at least
\* one sleep of positive duration lies between the failure and the
\* re-invocation, whatever the error's headers and the limiter's state.
C37_NoBackToBackRetry ==
    \A c \in LimCallers :
        (/\ impl = "current" /\ RetryInFlight(c)
         /\ lastErr[c].err.status \in {403, 429})
        => \E i \in DOMAIN SleepsSinceFailure(c) : SleepsSinceFailure(c)[i] > 0

\* C38: without I/O failures, after any sequence of saveSession, deleteSession,
\* cleanupExpiredSessions and loadAllPersistedSessions on one store that starts
\* on an empty directory, a key has an in-memory record exactly when its
\* session file exists, and the file's content is that record.
C38_MemoryAgreesWithDisk ==
    sp = "idle" =>
        \A k \in Keys :
            /\ (sessions[k] # NoSession) <=> existsSync(files, getSessionFilePath(k))
            /\ sessions[k] # NoSession
                  => DataAt(files, getSessionFilePath(k)) = JsonOf(sessions[k])

\* C39: an expired session is never handed out: at every moment getSession(key)
\* returns undefined or a record whose age, now - createdAt, is at most ttlMs.
C39_NoExpiredSessionHandedOut ==
    \A k \in Keys :
        getSession(k) = NoSession \/ now - getSession(k).createdAt <= TtlMs

\* C40: the limiter's state is never torn: in every reachable state, under any
\* interleaving of updateFromHeaders, waitIfNeeded, executeWithRetry and reset by
\* several callers, delay is 0 or 200, and it is 200 exactly when remaining is
\* at most 100.
C40_StateNeverTorn ==
    /\ lim.delay \in {0, LOW_REMAINING_DELAY_MS}
    /\ (lim.delay = LOW_REMAINING_DELAY_MS) <=> (lim.remaining <= LOW_REMAINING_THRESHOLD)
\* reset ran after headers with a reset time were observed, while a caller sleeps
\* in waitIfNeeded and another caller's call is in flight
C40_Witness ==
    /\ observed.reset.present /\ lim = NewLim
    /\ \E c, d \in LimCallers :
          /\ lpc[c] = "sleeping" /\ resume[c] \in {"waitTry", "waitCatch"}
          /\ lpc[d] = "inflight"

====
